---- MODULE Spec2Model ----
(***************************************************************************)
(* Client-side map synchronisation of ftsartek/linked: the event stream    *)
(* listeners (helpers/mapSSE.ts), the reconciler callbacks and the map     *)
(* view handlers (components/map/Map.svelte), the mutation actions         *)
(* (helpers/mapContextActions.ts) and the selection store                  *)
(* (stores/mapSelection.ts).                                               *)
(***************************************************************************)
EXTENDS Integers, Sequences, FiniteSets, TLC

VARIABLES
    nodes,        \* Map.svelte:86   let nodes = $state.raw<Node[]>([])
    edges,        \* Map.svelte:87   let edges = $state.raw<Edge[]>([])
    mapInfo,      \* Map.svelte:95
    edgeType,     \* Map.svelte:96
    rankdir,      \* Map.svelte:98
    locked,       \* Map.svelte:103
    loading,      \* Map.svelte:88
    error,        \* Map.svelte:89
    lastEventId,  \* Map.svelte:92
    mapSelection, \* mapSelection.ts:20 the writable selection store
    lastEvent,    \* history: the last stream event handed to a listener
    delivered,    \* history: number of stream events handed to listeners
    dup,          \* history: the last event repeated the one before it
    pre,          \* history: what the last event met in the store
    eventLog,     \* the events the backend has emitted for the map, in order
    replayPos,    \* position of a replay after a reconnect (0: none running)
    ref,          \* the store an uninterrupted delivery of eventLog yields
    backend,      \* the backend's map resource: nodes and links
    sse,          \* mapSSE.ts:40   the EventSource and its position in eventLog
    load,         \* Map.svelte:155 the GET /maps/{map_id} request in flight
    gesture,      \* Map.svelte:191 the running handleBeforeDelete call
    requests,     \* the DELETE requests issued by the mutation actions
    now,          \* the time in ms since the persister was created
    debounceTimer,\* mapViewport.ts:30 the timer and the viewport it closes over
    lastPersisted,\* mapViewport.ts:31
    patches,      \* mapViewport.ts:49 the viewport PATCH requests in flight
    saved,        \* the viewport the backend holds for the map
    writes,       \* history: the viewport PATCH requests issued, with their time
    calls,        \* history: the persist calls made, with their time
    fires,        \* history: number of timer callbacks run
    cleaned,      \* history: cleanup() was called after the last persist
    map_id,       \* Map.svelte:83  the map_id prop
    initPc,       \* Map.svelte:448 where the $effect's init() stands
    selectedUnder,\* history: the store's mapId when selectedNode was set
    action,       \* mapContextActions.ts: the running mutation action
    toasts,       \* toaster.ts: the notifications raised so far
    invoked,      \* history: number of gestures made (action, delete, reload)
    runs,         \* Map.svelte:445 the runs of the lifecycle $effect
    mounted,      \* the map view component exists
    drag,         \* Map.svelte:185 the handleSelectionDragStop in progress
    sigPanel,     \* SignatureCard.svelte: last loaded state, effect pending
    notesPanel,   \* NotesCard.svelte: last loaded state, effect pending
    fetches       \* history: the fetches the two panels have issued

viewVars == <<nodes, edges, mapInfo, edgeType, rankdir, locked, loading, error,
              lastEventId, mapSelection>>

histVars == <<lastEvent, delivered, dup, pre>>

resumeVars == <<eventLog, replayPos, ref>>

backendVars == <<backend, sse, load>>

gestureVars == <<gesture, requests>>

viewportVars == <<now, debounceTimer, lastPersisted, patches, saved, writes,
                  calls, fires, cleaned>>

\* the state outside the map view, its stream and its delete gesture
switchVars == <<map_id, initPc, selectedUnder>>

mutationVars == <<action, toasts, invoked>>

\* the lifecycle effect, the drag gesture and the two side panels
moreVars == <<runs, mounted, drag, sigPanel, notesPanel, fetches>>

extraVars == <<viewportVars, switchVars, mutationVars, moreVars>>

vars == <<viewVars, histVars, resumeVars, backendVars, gestureVars, extraVars>>

----------------------------------------------------------------------------
(* Bounds of the model *)

MaxNodes == 3
MaxEdges == 2
MaxEvents == 2
MaxCommits == 1
MaxActions == 1
\* runs of the lifecycle effect (the mount and the changes of map_id)
MaxRuns == 2
\* times the transport loses the connection of one handle
MaxDrops == 2
\* requests of the signature panel in flight at one time
MaxPending == 4

----------------------------------------------------------------------------
(* Values *)

\* JavaScript null / undefined of a string-typed field
Null == "null"
\* JavaScript null of an object-typed variable
NullRec == [null |-> TRUE]

NodeIds == 1..MaxNodes
EdgeIds == 1..MaxEdges

\* {pos_x, pos_y} pairs a payload may carry
Positions == {<<0, 0>>, <<10, 20>>}

\* components['schemas']['EnrichedNodeInfo'] (the fields the view reads)
NodeInfos ==
    {[id |-> i, pos_x |-> p[1], pos_y |-> p[2], locked |-> l] :
        i \in NodeIds, p \in Positions, l \in BOOLEAN}

\* wormhole_code / mass_usage / lifetime_status triples a payload may carry
Displays == {<<Null, 0, "stable">>, <<"H296", 2, "eol">>}

\* <<source_node_id, target_node_id>> pairs a payload may carry
Endpoints == {<<1, 2>>, <<2, 1>>}

\* components['schemas']['EnrichedLinkInfo']
LinkInfos ==
    {[id |-> i, source_node_id |-> e[1], target_node_id |-> e[2],
      wormhole_code |-> d[1], mass_usage |-> d[2], lifetime_status |-> d[3]] :
        i \in EdgeIds, e \in Endpoints, d \in Displays}

\* components['schemas']['MapInfo'] (the fields the view reads)
MapInfos ==
    {[edit_access |-> a, edge_type |-> s[1], rankdir |-> s[2]] :
        a \in BOOLEAN, s \in {<<Null, Null>>, <<"straight", "TB">>}}

MapId == "map1"

MapIds == {"map1", "map2"}

----------------------------------------------------------------------------
(* Sequence helpers *)

Range(s) == {s[i] : i \in 1..Len(s)}

Ids(s) == {s[i].id : i \in 1..Len(s)}

Count(s, id) == Cardinality({i \in 1..Len(s) : s[i].id = id})

\* all sequences over S of length at most n without a repeated id
RECURSIVE UniqueSeqs(_, _)
UniqueSeqs(S, n) ==
    IF n = 0 THEN {<<>>}
    ELSE LET shorter == UniqueSeqs(S, n - 1)
         IN shorter \cup
            UNION {{Append(s, x) : x \in {y \in S : y.id \notin Ids(s)}} :
                      s \in {t \in shorter : Len(t) = n - 1}}

NoDup(s) == \A i, j \in 1..Len(s) : s[i].id = s[j].id => i = j

\* s without its k-th entry
RemoveAt(s, k) == [i \in 1..(Len(s) - 1) |-> IF i < k THEN s[i] ELSE s[i + 1]]

Abs(n) == IF n < 0 THEN -n ELSE n

----------------------------------------------------------------------------
(* helpers/mapHelpers.ts *)

\* a node that can always be dragged
NodeOf_draggable(node) ==
    [id |-> node.id,
     position |-> [x |-> node.pos_x, y |-> node.pos_y],
     data |-> node,
     draggable |-> TRUE]

\* one element of transformNodes' result
NodeOf(node) ==
    [id |-> node.id,
     position |-> [x |-> node.pos_x, y |-> node.pos_y],
     data |-> node,
     draggable |-> ~node.locked]

\* one element of transformEdges' result
EdgeOf(link) ==
    [id |-> link.id,
     source |-> link.source_node_id,
     target |-> link.target_node_id,
     data |-> [wormhole_id |-> link.wormhole_code,
               mass_remaining |-> link.mass_usage,
               status |-> link.lifetime_status]]

transformNodes(apiNodes) ==
    [i \in 1..Len(apiNodes) |-> NodeOf(apiNodes[i])]

transformEdges(apiLinks) ==
    [i \in 1..Len(apiLinks) |-> EdgeOf(apiLinks[i])]

----------------------------------------------------------------------------
(* stores/mapSelection.ts *)

initialState ==
    [selectedNode |-> NullRec,
     mapId |-> Null,
     isReadOnly |-> TRUE,
     signatureRefreshTrigger |-> 0,
     noteRefreshTrigger |-> 0]

selectNode(state, node) == [state EXCEPT !.selectedNode = node]

setMapContext_keepSelection(state, mapId, readOnly) ==
    [state EXCEPT !.mapId = mapId, !.isReadOnly = readOnly]

setMapContext(state, mapId, readOnly) ==
    [state EXCEPT !.mapId = mapId, !.isReadOnly = readOnly,
                  !.selectedNode = NullRec]

\* a clearSelection that goes back to the initial counters
clearSelection_reset(state) ==
    [initialState EXCEPT !.mapId = state.mapId,
                         !.isReadOnly = state.isReadOnly]

clearSelection(state) == [state EXCEPT !.selectedNode = NullRec]

triggerSignatureRefresh_both(state) ==
    [state EXCEPT !.signatureRefreshTrigger = @ + 1,
                  !.noteRefreshTrigger = @ + 1]

triggerSignatureRefresh(state) ==
    [state EXCEPT !.signatureRefreshTrigger = @ + 1]

triggerNoteRefresh(state) ==
    [state EXCEPT !.noteRefreshTrigger = @ + 1]

----------------------------------------------------------------------------
(* components/map/Map.svelte: derived state and the stream callbacks *)

\* const isReadOnly = $derived(mapInfo?.edit_access === false)
isReadOnly == mapInfo # NullRec /\ mapInfo.edit_access = FALSE

\* const isLocked = $derived(isReadOnly || locked)
isLocked == isReadOnly \/ locked

onNodeCreated_noCheck(ns, newNode) == Append(ns, newNode)

onNodeCreated(ns, newNode) ==
    IF (\E k \in 1..Len(ns) : ns[k].id = newNode.id) THEN ns
    ELSE Append(ns, newNode)

onNodeUpdated_noPosition(ns, nodeData, viewLocked) ==
    [k \in 1..Len(ns) |->
        IF ns[k].id = nodeData.id
        THEN [ns[k] EXCEPT !.data = nodeData,
                       !.draggable = ~viewLocked /\ ~nodeData.locked]
        ELSE ns[k]]

onNodeUpdated(ns, nodeData, viewLocked) ==
    [k \in 1..Len(ns) |->
        IF ns[k].id = nodeData.id
        THEN [ns[k] EXCEPT !.position = [x |-> nodeData.pos_x, y |-> nodeData.pos_y],
                       !.data = nodeData,
                       !.draggable = ~viewLocked /\ ~nodeData.locked]
        ELSE ns[k]]

\* removal by index, where a missing id yields index -1 (the last entry)
onNodeDeleted_splice(ns, nodeId) ==
    IF (\E k \in 1..Len(ns) : ns[k].id = nodeId)
    THEN SelectSeq(ns, LAMBDA n : n.id # nodeId)
    ELSE SubSeq(ns, 1, Len(ns) - 1)

onNodeDeleted(ns, nodeId) == SelectSeq(ns, LAMBDA n : n.id # nodeId)

onEdgeCreated_noCheck(es, newEdge) == Append(es, newEdge)

onEdgeCreated(es, newEdge) ==
    IF (\E k \in 1..Len(es) : es[k].id = newEdge.id) THEN es
    ELSE Append(es, newEdge)

\* the update applied as removal followed by re-creation
onEdgeUpdated_recreate(es, linkData) ==
    IF (\E k \in 1..Len(es) : es[k].id = linkData.id)
    THEN Append(SelectSeq(es, LAMBDA e : e.id # linkData.id), EdgeOf(linkData))
    ELSE es

onEdgeUpdated(es, linkData) ==
    [k \in 1..Len(es) |->
        IF es[k].id = linkData.id
        THEN [es[k] EXCEPT !.source = linkData.source_node_id,
                       !.target = linkData.target_node_id,
                       !.data = [wormhole_id |-> linkData.wormhole_code,
                                 mass_remaining |-> linkData.mass_usage,
                                 status |-> linkData.lifetime_status]]
        ELSE es[k]]

\* removal by index, where a missing id yields index -1 (the last entry)
onEdgeDeleted_splice(es, edgeId) ==
    IF (\E k \in 1..Len(es) : es[k].id = edgeId)
    THEN SelectSeq(es, LAMBDA e : e.id # edgeId)
    ELSE SubSeq(es, 1, Len(es) - 1)

onEdgeDeleted(es, edgeId) == SelectSeq(es, LAMBDA e : e.id # edgeId)

\* (changes.edge_type as EdgeType) ?? 'default'
EdgeTypeOf(m) == IF m.edge_type = Null THEN "default" ELSE m.edge_type

\* the payload's rankdir passed on without a default
RankdirOf_raw(m) == m.rankdir

\* (changes.rankdir as Rankdir) ?? 'LR'
RankdirOf(m) == IF m.rankdir = Null THEN "LR" ELSE m.rankdir

----------------------------------------------------------------------------
(* helpers/mapSSE.ts: the listeners createMapSSE registers.  Each action   *)
(* is one listener together with the callback it invokes.                  *)

SignatureEvents == {"signature_created", "signature_updated",
                    "signature_deleted", "signatures_bulk_updated"}

NoteEvents == {"note_created", "note_updated", "note_deleted"}

NoData == [none |-> TRUE]

Event(type, data) == [type |-> type, data |-> data]

NodeEvents == {"node_created", "node_updated", "node_deleted"}

LinkEvents == {"link_created", "link_updated", "link_deleted"}

\* the entity id an event's payload names
EventId(ev) ==
    IF ev.type = "node_deleted" THEN ev.data.node_id
    ELSE IF ev.type = "link_deleted" THEN ev.data.link_id
    ELSE ev.data.id

\* what an event meets in the store it is applied to: whether its id is
\* present, and whether the stored edge has other endpoints than the payload
Meets(ev, ns, es) ==
    [present |-> \/ ev.type \in NodeEvents /\ EventId(ev) \in Ids(ns)
                 \/ ev.type \in LinkEvents /\ EventId(ev) \in Ids(es),
     rewired |-> /\ ev.type = "link_updated"
                 /\ \E i \in 1..Len(es) :
                        /\ es[i].id = ev.data.id
                        /\ \/ es[i].source # ev.data.source_node_id
                           \/ es[i].target # ev.data.target_node_id]

\* history of the delivery of one event to its listener
Deliver(ev) ==
    /\ delivered < MaxEvents
    /\ delivered' = delivered + 1
    /\ lastEvent' = ev
    /\ dup' = (delivered >= 1 /\ lastEvent = ev)
    /\ pre' = Meets(ev, nodes, edges)

node_created ==
    \E nodeData \in NodeInfos :
        /\ Deliver(Event("node_created", nodeData))
        /\ nodes' = onNodeCreated(nodes, NodeOf(nodeData))
        /\ UNCHANGED <<edges, mapInfo, edgeType, rankdir, locked, loading,
                       error, lastEventId, mapSelection>>
        /\ UNCHANGED <<resumeVars, backendVars, gestureVars, extraVars>>

node_updated ==
    \E nodeData \in NodeInfos :
        /\ Deliver(Event("node_updated", nodeData))
        /\ nodes' = onNodeUpdated(nodes, nodeData, isLocked)
        /\ UNCHANGED <<edges, mapInfo, edgeType, rankdir, locked, loading,
                       error, lastEventId, mapSelection>>
        /\ UNCHANGED <<resumeVars, backendVars, gestureVars, extraVars>>

node_deleted ==
    \E nodeId \in NodeIds :
        /\ Deliver(Event("node_deleted", [node_id |-> nodeId]))
        /\ nodes' = onNodeDeleted(nodes, nodeId)
        /\ UNCHANGED <<edges, mapInfo, edgeType, rankdir, locked, loading,
                       error, lastEventId, mapSelection>>
        /\ UNCHANGED <<resumeVars, backendVars, gestureVars, extraVars>>

link_created ==
    \E linkData \in LinkInfos :
        /\ Deliver(Event("link_created", linkData))
        /\ edges' = onEdgeCreated(edges, EdgeOf(linkData))
        /\ UNCHANGED <<nodes, mapInfo, edgeType, rankdir, locked, loading,
                       error, lastEventId, mapSelection>>
        /\ UNCHANGED <<resumeVars, backendVars, gestureVars, extraVars>>

link_updated ==
    \E linkData \in LinkInfos :
        /\ Deliver(Event("link_updated", linkData))
        /\ edges' = onEdgeUpdated(edges, linkData)
        /\ UNCHANGED <<nodes, mapInfo, edgeType, rankdir, locked, loading,
                       error, lastEventId, mapSelection>>
        /\ UNCHANGED <<resumeVars, backendVars, gestureVars, extraVars>>

link_deleted ==
    \E linkId \in EdgeIds :
        /\ Deliver(Event("link_deleted", [link_id |-> linkId]))
        /\ edges' = onEdgeDeleted(edges, linkId)
        /\ UNCHANGED <<nodes, mapInfo, edgeType, rankdir, locked, loading,
                       error, lastEventId, mapSelection>>
        /\ UNCHANGED <<resumeVars, backendVars, gestureVars, extraVars>>

signature_event ==
    \E name \in SignatureEvents :
        /\ Deliver(Event(name, NoData))
        /\ mapSelection' = triggerSignatureRefresh(mapSelection)
        /\ UNCHANGED <<nodes, edges, mapInfo, edgeType, rankdir, locked,
                       loading, error, lastEventId>>
        /\ UNCHANGED <<resumeVars, backendVars, gestureVars, extraVars>>

note_event ==
    \E name \in NoteEvents :
        /\ Deliver(Event(name, NoData))
        /\ mapSelection' = triggerNoteRefresh(mapSelection)
        /\ UNCHANGED <<nodes, edges, mapInfo, edgeType, rankdir, locked,
                       loading, error, lastEventId>>
        /\ UNCHANGED <<resumeVars, backendVars, gestureVars, extraVars>>

map_updated ==
    \E changes \in MapInfos :
        /\ Deliver(Event("map_updated", changes))
        /\ mapInfo' = changes
        /\ edgeType' = EdgeTypeOf(changes)
        /\ rankdir' = RankdirOf(changes)
        /\ UNCHANGED <<nodes, edges, locked, loading, error, lastEventId,
                       mapSelection>>
        /\ UNCHANGED <<resumeVars, backendVars, gestureVars, extraVars>>

----------------------------------------------------------------------------
(* Spec: the reconciler under an arbitrary event stream, started from a    *)
(* view whose loadMap has completed.                                       *)

\* GET /maps/{map_id} response bodies the initial load may return
InitialNodeLists ==
    {[i \in 1..n |-> [id |-> i, pos_x |-> 0, pos_y |-> 0, locked |-> FALSE]] :
        n \in 0..MaxNodes}

InitialLinkLists ==
    {[i \in 1..n |-> [id |-> i, source_node_id |-> 1, target_node_id |-> 2,
                      wormhole_code |-> Null, mass_usage |-> 0,
                      lifetime_status |-> "stable"]] :
        n \in 0..MaxEdges}

InitialMaps == {m \in MapInfos : m.rankdir = Null /\ m.edit_access}

\* the state loadMap leaves behind when the request succeeds
Loaded(data, viewLocked) ==
    /\ mapInfo = data.map
    /\ edgeType = EdgeTypeOf(data.map)
    /\ rankdir = RankdirOf(data.map)
    /\ nodes = transformNodes(data.nodes)
    /\ edges = transformEdges(data.links)
    /\ lastEventId = data.last_event_id
    /\ mapSelection = setMapContext(initialState, MapId,
                                    data.map.edit_access = FALSE)
    /\ locked = viewLocked
    /\ loading = FALSE
    /\ error = Null

NoEvent == Event("none", NoData)

\* no event delivered yet
HistInit ==
    /\ lastEvent = NoEvent
    /\ delivered = 0
    /\ dup = FALSE
    /\ pre = [present |-> FALSE, rewired |-> FALSE]

\* the parts of the state a specification does not exercise
ResumeIdle ==
    /\ eventLog = <<>>
    /\ replayPos = 0
    /\ ref = [nodes |-> <<>>, edges |-> <<>>]

BackendIdle ==
    /\ backend = [nodes |-> <<>>, links |-> <<>>]
    /\ sse = [state |-> "none", cursor |-> 0]
    /\ load = NullRec

GestureIdle ==
    /\ gesture = [pc |-> "idle", deletedNodes |-> <<>>, deletedEdges |-> <<>>,
                  unlocked |-> <<>>, i |-> 0, result |-> Null]
    /\ requests = <<>>

\* createViewportPersister has just returned and nothing was persisted
ViewportIdle ==
    /\ now = 0
    /\ debounceTimer = [pending |-> FALSE, due |-> 0, viewport |-> NullRec]
    /\ lastPersisted = NullRec
    /\ patches = <<>>
    /\ saved = NullRec
    /\ writes = <<>>
    /\ calls = <<>>
    /\ fires = 0
    /\ cleaned = FALSE

\* the view shows MapId, its init() has finished, nothing is selected
SwitchIdle ==
    /\ map_id = MapId
    /\ initPc = "done"
    /\ selectedUnder = Null

\* no mutation action is running and no notification was raised
MutationIdle ==
    /\ action = [pc |-> "idle", call |-> NoData, step |-> 0,
                 response |-> NullRec, created |-> 0, result |-> Null]
    /\ toasts = <<>>
    /\ invoked = 0

\* the lifecycle effect's runs are not followed, nothing is dragged and the
\* panels have fetched nothing
MoreIdle ==
    /\ runs = <<>>
    /\ mounted = TRUE
    /\ drag = [pc |-> "idle", draggedNodes |-> <<>>, i |-> 0]
    /\ sigPanel = [lastLoaded |-> 0, lastRefreshTrigger |-> 0]
    /\ notesPanel = [lastLoaded |-> 0, lastRefreshTrigger |-> 0]
    /\ fetches = [signatures |-> NullRec, notes |-> NullRec]

ExtraIdle ==
    /\ ViewportIdle
    /\ SwitchIdle
    /\ MutationIdle
    /\ MoreIdle

Init ==
    /\ \E ns \in InitialNodeLists, ls \in InitialLinkLists,
          m \in InitialMaps :
            Loaded([map |-> m, nodes |-> ns, links |-> ls,
                    last_event_id |-> 0], FALSE)
    /\ HistInit
    /\ ResumeIdle
    /\ BackendIdle
    /\ GestureIdle
    /\ ExtraIdle

Next ==
    \/ node_created
    \/ node_updated
    \/ node_deleted
    \/ link_created
    \/ link_updated
    \/ link_deleted
    \/ signature_event
    \/ note_event
    \/ map_updated

Spec == Init /\ [][Next]_vars

----------------------------------------------------------------------------
(* SpecResume: a stream of backend events that is interrupted, resumed and *)
(* partly replayed.  The backend emits node and link events for the        *)
(* entities it holds; ref is the store under uninterrupted delivery.       *)

\* the node collection after the listener for ev.type has run
NodesAfter(ev, ns, viewLocked) ==
    CASE ev.type = "node_created" -> onNodeCreated(ns, NodeOf(ev.data))
      [] ev.type = "node_updated" -> onNodeUpdated(ns, ev.data, viewLocked)
      [] ev.type = "node_deleted" -> onNodeDeleted(ns, ev.data.node_id)
      [] OTHER -> ns

\* the edge collection after the listener for ev.type has run
EdgesAfter(ev, es) ==
    CASE ev.type = "link_created" -> onEdgeCreated(es, EdgeOf(ev.data))
      [] ev.type = "link_updated" -> onEdgeUpdated(es, ev.data)
      [] ev.type = "link_deleted" -> onEdgeDeleted(es, ev.data.link_id)
      [] OTHER -> es

\* the ids of the given kinds of event in a log
LogIds(log, types) ==
    {EventId(log[i]) : i \in {j \in 1..Len(log) : log[j].type \in types}}

\* the events a backend holding the entities nodeIds / linkIds can emit next;
\* it never gives a new entity an id it has used before
BackendEvents(nodeIds, linkIds, usedNodeIds, usedLinkIds) ==
    {Event("node_created", d) :
        d \in {n \in NodeInfos : n.id \notin nodeIds \cup usedNodeIds}}
    \cup {Event("node_updated", d) : d \in {n \in NodeInfos : n.id \in nodeIds}}
    \cup {Event("node_deleted", [node_id |-> i]) : i \in nodeIds}
    \cup {Event("link_created", d) :
        d \in {l \in LinkInfos : l.id \notin linkIds \cup usedLinkIds}}
    \cup {Event("link_updated", d) : d \in {l \in LinkInfos : l.id \in linkIds}}
    \cup {Event("link_deleted", [link_id |-> i]) : i \in linkIds}

\* a fresh event arrives on the live connection
StreamDeliver ==
    /\ replayPos = 0
    /\ \E ev \in BackendEvents(Ids(ref.nodes), Ids(ref.edges),
                               LogIds(eventLog, NodeEvents),
                               LogIds(eventLog, LinkEvents)) :
        /\ Deliver(ev)
        /\ eventLog' = Append(eventLog, ev)
        /\ nodes' = NodesAfter(ev, nodes, isLocked)
        /\ edges' = EdgesAfter(ev, edges)
        /\ ref' = [nodes |-> NodesAfter(ev, ref.nodes, isLocked),
                   edges |-> EdgesAfter(ev, ref.edges)]
    /\ UNCHANGED <<mapInfo, edgeType, rankdir, locked, loading, error,
                   lastEventId, mapSelection, replayPos>>
    /\ UNCHANGED <<backendVars, gestureVars, extraVars>>

\* the transport drops and re-establishes the connection; already delivered
\* events may be sent again, in their original order
Reconnect ==
    /\ replayPos = 0
    /\ Len(eventLog) >= 1
    /\ replayPos' = 1
    /\ UNCHANGED <<viewVars, histVars, eventLog, ref, backendVars, gestureVars, extraVars>>

NextReplayPos == IF replayPos = Len(eventLog) THEN 0 ELSE replayPos + 1

\* the event at replayPos is delivered a second time
ReplayDeliver ==
    /\ replayPos >= 1
    /\ nodes' = NodesAfter(eventLog[replayPos], nodes, isLocked)
    /\ edges' = EdgesAfter(eventLog[replayPos], edges)
    /\ replayPos' = NextReplayPos
    /\ UNCHANGED <<mapInfo, edgeType, rankdir, locked, loading, error,
                   lastEventId, mapSelection, eventLog, ref>>
    /\ UNCHANGED <<histVars, backendVars, gestureVars, extraVars>>

\* the event at replayPos is not sent again
ReplaySkip ==
    /\ replayPos >= 1
    /\ replayPos' = NextReplayPos
    /\ UNCHANGED <<viewVars, histVars, eventLog, ref, backendVars, gestureVars, extraVars>>

ResumeSnapshot ==
    [map |-> CHOOSE m \in InitialMaps : TRUE,
     nodes |-> CHOOSE ns \in InitialNodeLists : Len(ns) = 2,
     links |-> CHOOSE ls \in InitialLinkLists : Len(ls) = 1,
     last_event_id |-> 0]

InitResume ==
    /\ Loaded(ResumeSnapshot, FALSE)
    /\ HistInit
    /\ eventLog = <<>>
    /\ replayPos = 0
    /\ ref = [nodes |-> transformNodes(ResumeSnapshot.nodes),
              edges |-> transformEdges(ResumeSnapshot.links)]
    /\ BackendIdle
    /\ GestureIdle
    /\ ExtraIdle

NextResume ==
    \/ StreamDeliver
    \/ Reconnect
    \/ ReplayDeliver
    \/ ReplaySkip

SpecResume == InitResume /\ [][NextResume]_vars

\* C2: once E1..Ek were delivered, some of them were delivered again in
\* their original order after a reconnect, and delivery went on, the node
\* and edge collections equal those of an uninterrupted delivery.
C2_ResumeContinuity ==
    replayPos = 0 => (nodes = ref.nodes /\ edges = ref.edges)

----------------------------------------------------------------------------
(* SpecSync: the map view against the backend.  The backend commits        *)
(* mutations (requested by this viewer's mutation actions or by other      *)
(* viewers) and appends one event per mutation to the map's event log; an  *)
(* event's id is its position in the log.  The view loads the map          *)
(* (loadMap), opens the stream once the first load has finished, and may   *)
(* reload the map at any time.                                             *)

\* lastEventId = null
NoEventId == -1

\* the backend's nodes / links after it has committed the mutation ev reports
BackendNodesAfter(ev, ns) ==
    CASE ev.type = "node_created" -> Append(ns, ev.data)
      [] ev.type = "node_updated" ->
            [k \in 1..Len(ns) |-> IF ns[k].id = ev.data.id THEN ev.data ELSE ns[k]]
      [] ev.type = "node_deleted" ->
            SelectSeq(ns, LAMBDA n : n.id # ev.data.node_id)
      [] OTHER -> ns

BackendLinksAfter(ev, ls) ==
    CASE ev.type = "link_created" -> Append(ls, ev.data)
      [] ev.type = "link_updated" ->
            [k \in 1..Len(ls) |-> IF ls[k].id = ev.data.id THEN ev.data ELSE ls[k]]
      [] ev.type = "link_deleted" ->
            SelectSeq(ls, LAMBDA l : l.id # ev.data.link_id)
      [] OTHER -> ls

\* the backend commits a mutation and emits its event
BackendCommit ==
    /\ Len(eventLog) < MaxCommits
    /\ \E ev \in BackendEvents(Ids(backend.nodes), Ids(backend.links),
                               LogIds(eventLog, NodeEvents),
                               LogIds(eventLog, LinkEvents)) :
        /\ eventLog' = Append(eventLog, ev)
        /\ backend' = [nodes |-> BackendNodesAfter(ev, backend.nodes),
                       links |-> BackendLinksAfter(ev, backend.links)]
    /\ UNCHANGED <<viewVars, histVars, replayPos, ref, sse, load, gestureVars, extraVars>>

\* Map.svelte:666 the reload button: loadMap up to its await
Reload ==
    /\ sse.state = "open"
    /\ load = NullRec
    /\ invoked < MaxActions
    /\ invoked' = invoked + 1
    /\ loading' = TRUE
    /\ error' = Null
    /\ load' = [phase |-> "sent"]
    /\ UNCHANGED <<nodes, edges, mapInfo, edgeType, rankdir, locked,
                   lastEventId, mapSelection>>
    /\ UNCHANGED <<histVars, resumeVars, backend, sse, gestureVars>>
    /\ UNCHANGED <<viewportVars, switchVars, action, toasts>>
    /\ UNCHANGED moreVars

\* the map metadata the backend may hold: editable or read-only
ServedMaps == {m \in MapInfos : m.rankdir = Null}

\* the backend answers GET /maps/{map_id} from its current state
ServeLoad ==
    /\ load # NullRec
    /\ load.phase = "sent"
    /\ \/ \E m \in ServedMaps :
            load' = [phase |-> "answered",
                     data |-> [map |-> m,
                               nodes |-> backend.nodes,
                               links |-> backend.links,
                               last_event_id |-> Len(eventLog)]]
       \/ load' = [phase |-> "failed"]
    /\ UNCHANGED <<viewVars, histVars, resumeVars, backend, sse, gestureVars, extraVars>>

\* createMapSSE as called from init().then: with a cursor the backend sends
\* the events after it, without one the events emitted from now on
createMapSSE(cursor) ==
    IF sse.state = "none"
    THEN [state |-> "open",
          cursor |-> IF cursor # NoEventId THEN cursor ELSE Len(eventLog)]
    ELSE sse

\* loadMap after its await, the request having succeeded
LoadDone ==
    /\ load # NullRec
    /\ load.phase = "answered"
    /\ mapInfo' = load.data.map
    /\ edgeType' = EdgeTypeOf(load.data.map)
    /\ rankdir' = RankdirOf(load.data.map)
    /\ nodes' = transformNodes(load.data.nodes)
    /\ edges' = transformEdges(load.data.links)
    /\ lastEventId' = load.data.last_event_id
    /\ mapSelection' = setMapContext(mapSelection, map_id,
                                     load.data.map.edit_access = FALSE)
    /\ loading' = FALSE
    /\ load' = NullRec
    /\ sse' = IF initPc = "loading" THEN createMapSSE(lastEventId') ELSE sse
    /\ initPc' = "done"
    /\ UNCHANGED <<locked, error, histVars, resumeVars, backend, gestureVars>>
    /\ UNCHANGED <<viewportVars, map_id, selectedUnder, mutationVars>>
    /\ UNCHANGED moreVars

\* loadMap after its await, the request having failed
LoadFailed ==
    /\ load # NullRec
    /\ load.phase = "failed"
    /\ error' = "Failed to load map"
    /\ loading' = FALSE
    /\ load' = NullRec
    /\ sse' = IF initPc = "loading" THEN createMapSSE(lastEventId) ELSE sse
    /\ initPc' = "done"
    /\ UNCHANGED <<nodes, edges, mapInfo, edgeType, rankdir, locked,
                   lastEventId, mapSelection>>
    /\ UNCHANGED <<histVars, resumeVars, backend, gestureVars>>
    /\ UNCHANGED <<viewportVars, map_id, selectedUnder, mutationVars>>
    /\ UNCHANGED moreVars

\* the next event of the log reaches its listener
SseDeliver ==
    /\ sse.state = "open"
    /\ sse.cursor < Len(eventLog)
    /\ nodes' = NodesAfter(eventLog[sse.cursor + 1], nodes, isLocked)
    /\ edges' = EdgesAfter(eventLog[sse.cursor + 1], edges)
    /\ sse' = [sse EXCEPT !.cursor = @ + 1]
    /\ UNCHANGED <<mapInfo, edgeType, rankdir, locked, loading, error,
                   lastEventId, mapSelection>>
    /\ UNCHANGED <<histVars, resumeVars, backend, load, gestureVars, extraVars>>

InitSync ==
    /\ nodes = <<>>
    /\ edges = <<>>
    /\ mapInfo = NullRec
    /\ edgeType = "default"
    /\ rankdir = "LR"
    /\ locked = FALSE
    /\ loading = TRUE
    /\ error = Null
    /\ lastEventId = NoEventId
    /\ mapSelection = initialState
    /\ HistInit
    /\ ResumeIdle
    /\ backend = [nodes |-> ResumeSnapshot.nodes, links |-> ResumeSnapshot.links]
    /\ sse = [state |-> "none", cursor |-> 0]
    /\ load = [phase |-> "sent"]
    /\ GestureIdle
    /\ ViewportIdle
    /\ map_id = MapId
    /\ initPc = "loading"
    /\ selectedUnder = Null
    /\ MutationIdle
    /\ MoreIdle

NextSync ==
    \/ BackendCommit
    \/ Reload
    \/ ServeLoad
    \/ LoadDone
    \/ LoadFailed
    \/ SseDeliver

SpecSync == InitSync /\ [][NextSync]_vars

\* every emitted event has been delivered and no load is in flight or failed
Quiescent ==
    /\ sse.state = "open"
    /\ sse.cursor = Len(eventLog)
    /\ load = NullRec
    /\ ~loading
    /\ error = Null

\* C3: whenever every emitted event has been applied and no load is in
\* flight, the store's nodes and edges are the backend's nodes and links.
C3_Convergence ==
    Quiescent =>
        /\ {nodes[i].data : i \in 1..Len(nodes)} = Range(backend.nodes)
        /\ Range(edges) = {EdgeOf(l) : l \in Range(backend.links)}

----------------------------------------------------------------------------
(* helpers/mapContextActions.ts: error reporting of the mutation actions *)

ActionNames ==
    {"removeNode", "toggleNodeLock", "updateNodePosition", "updateNodeSystem",
     "createNode", "removeEdge", "updateEdgeMassStatus",
     "updateEdgeLifetimeStatus", "reverseEdge", "createEdge",
     "setEdgeWormholeType", "createNodeWithConnection"}

\* the fixed message of the action that issued a request
Fallback(op) ==
    CASE op = "removeNode" -> "Failed to remove node"
      [] op = "toggleNodeLock" -> "Failed to toggle node lock"
      [] op = "updateNodePosition" -> "Failed to update node position"
      [] op = "updateNodeSystem" -> "Failed to update system"
      [] op = "createNode" -> "Failed to create node"
      [] op = "removeEdge" -> "Failed to remove connection"
      [] op = "updateEdgeMassStatus" -> "Failed to update mass status"
      [] op = "updateEdgeLifetimeStatus" -> "Failed to update lifetime status"
      [] op = "reverseEdge" -> "Failed to reverse connection"
      [] op = "createEdge" -> "Failed to create connection"
      [] op = "setEdgeWormholeType" -> "Failed to set wormhole type"

\* error bodies of a rejected request: with and without a detail string
ErrorBodies == {[detail |-> "Forbidden"], [title |-> "Internal Server Error"]}

ErrorText_fallbackOnly(err, fallback) == fallback

\* 'detail' in error ? error.detail : fallback
ErrorText(err, fallback) ==
    IF "detail" \in DOMAIN err THEN err.detail ELSE fallback

showError(ts, message) ==
    Append(ts, [title |-> "Error", description |-> message, type |-> "error"])

----------------------------------------------------------------------------
(* SpecDelete: the batch-delete gesture (handleBeforeDelete) and the       *)
(* DELETE requests of removeNode / removeEdge it awaits one after another. *)

\* the entries of s at the indices in I, in the order of s
RECURSIVE Pick(_, _)
Pick(s, I) ==
    IF s = <<>> THEN <<>>
    ELSE LET front == Pick(SubSeq(s, 1, Len(s) - 1), I)
         IN IF Len(s) \in I THEN Append(front, s[Len(s)]) ELSE front

\* deletedNodes.filter((node) => !node.data.locked) without the filter
Unlocked_all(deletedNodes) == deletedNodes

\* deletedNodes.filter((node) => !node.data.locked)
Unlocked(deletedNodes) == SelectSeq(deletedNodes, LAMBDA n : ~n.data.locked)

AllLocked_off(deletedNodes, unlocked) == FALSE

\* deletedNodes.length > 0 && unlocked.length === 0
AllLocked(deletedNodes, unlocked) ==
    Len(deletedNodes) > 0 /\ Len(unlocked) = 0

\* the calls the two for-loops make, in order
DeleteCalls(unlocked, deletedEdges) ==
    [k \in 1..Len(unlocked) |-> [op |-> "removeNode", id |-> unlocked[k].id]]
    \o [k \in 1..Len(deletedEdges) |->
            [op |-> "removeEdge", id |-> deletedEdges[k].id]]

\* the gesture once the calls before index i have succeeded: it returns true
\* when none is left and otherwise awaits call i
Await(g, i) ==
    IF i > Len(DeleteCalls(g.unlocked, g.deletedEdges))
    THEN [g EXCEPT !.pc = "done", !.i = i, !.result = "true"]
    ELSE [g EXCEPT !.pc = "await", !.i = i]

\* the requests once call i (if there is one) has issued its DELETE
Issued(g, i, reqs) ==
    IF i > Len(DeleteCalls(g.unlocked, g.deletedEdges)) THEN reqs
    ELSE Append(reqs, DeleteCalls(g.unlocked, g.deletedEdges)[i])

\* handleBeforeDelete up to its first await
handleBeforeDelete ==
    /\ gesture.pc = "idle"
    /\ invoked < MaxActions
    /\ \E I \in SUBSET (1..Len(nodes)), J \in SUBSET (1..Len(edges)) :
        LET deletedNodes == Pick(nodes, I)
            deletedEdges == Pick(edges, J)
            unlocked == Unlocked(deletedNodes)
            g == [pc |-> "idle", deletedNodes |-> deletedNodes,
                  deletedEdges |-> deletedEdges, unlocked |-> unlocked,
                  i |-> 0, result |-> Null]
        IN /\ I \cup J # {}
           /\ IF AllLocked(deletedNodes, unlocked)
              THEN /\ gesture' = [g EXCEPT !.pc = "done", !.result = "false"]
                   /\ requests' = requests
              ELSE /\ gesture' = Await(g, 1)
                   /\ requests' = Issued(g, 1, requests)
    /\ invoked' = invoked + 1
    /\ UNCHANGED <<viewVars, histVars, resumeVars, backendVars>>
    /\ UNCHANGED <<viewportVars, switchVars, action, toasts>>
    /\ UNCHANGED moreVars

\* the awaited removeNode / removeEdge returns { success: true }
DeleteSucceeded ==
    /\ gesture.pc = "await"
    /\ gesture' = Await(gesture, gesture.i + 1)
    /\ requests' = Issued(gesture, gesture.i + 1, requests)
    /\ UNCHANGED <<viewVars, histVars, resumeVars, backendVars, extraVars>>

\* the loop going on to the next call after a failed one
DeleteFailed_continue ==
    /\ gesture.pc = "await"
    /\ gesture' = [Await(gesture, gesture.i + 1) EXCEPT !.result = "false"]
    /\ requests' = Issued(gesture, gesture.i + 1, requests)
    /\ \E err \in ErrorBodies :
          toasts' = showError(toasts,
                        ErrorText(err, Fallback(requests[Len(requests)].op)))
    /\ UNCHANGED <<viewVars, histVars, resumeVars, backendVars>>
    /\ UNCHANGED <<viewportVars, switchVars, action, invoked>>
    /\ UNCHANGED moreVars

\* the awaited removeNode / removeEdge returns { success: false }
DeleteFailed ==
    /\ gesture.pc = "await"
    /\ gesture' = [gesture EXCEPT !.pc = "done", !.result = "false"]
    /\ \E err \in ErrorBodies :
          toasts' = showError(toasts,
                        ErrorText(err, Fallback(requests[Len(requests)].op)))
    /\ UNCHANGED requests
    /\ UNCHANGED <<viewVars, histVars, resumeVars, backendVars>>
    /\ UNCHANGED <<viewportVars, switchVars, action, invoked>>
    /\ UNCHANGED moreVars

\* the rendering layer, bound to nodes and edges, removes the selection once
\* handleBeforeDelete has resolved to true
FlowDelete ==
    /\ gesture.pc = "done"
    /\ gesture.result = "true"
    /\ nodes' = SelectSeq(nodes, LAMBDA n : n.id \notin Ids(gesture.deletedNodes))
    /\ edges' = SelectSeq(edges, LAMBDA e : e.id \notin Ids(gesture.deletedEdges))
    /\ gesture' = [gesture EXCEPT !.pc = "removed"]
    /\ UNCHANGED <<mapInfo, edgeType, rankdir, locked, loading, error,
                   lastEventId, mapSelection>>
    /\ UNCHANGED <<histVars, resumeVars, backendVars, requests, extraVars>>

\* GET /maps/{map_id} response bodies with every combination of node locks
LockedNodeLists ==
    {[i \in 1..MaxNodes |-> [id |-> i, pos_x |-> 0, pos_y |-> 0,
                             locked |-> (i \in L)]] : L \in SUBSET NodeIds}

InitDelete ==
    /\ \E ns \in LockedNodeLists :
          Loaded([map |-> CHOOSE m \in InitialMaps : TRUE,
                  nodes |-> ns,
                  links |-> CHOOSE ls \in InitialLinkLists : Len(ls) = MaxEdges,
                  last_event_id |-> 0], FALSE)
    /\ HistInit
    /\ ResumeIdle
    /\ BackendIdle
    /\ GestureIdle
    /\ ExtraIdle

NextDelete ==
    \/ handleBeforeDelete
    \/ DeleteSucceeded
    \/ DeleteFailed
    \/ FlowDelete

SpecDelete == InitDelete /\ [][NextDelete]_vars

\* the ids for which a request of the given kind was issued, in order
RequestedIds(op) ==
    LET rs == SelectSeq(requests, LAMBDA r : r.op = op)
    IN [k \in 1..Len(rs) |-> rs[k].id]

IdsOf(s) == [k \in 1..Len(s) |-> s[k].id]

IsPrefix(s, t) == Len(s) <= Len(t) /\ s = SubSeq(t, 1, Len(s))

\* the gesture has returned for a selection with an unlocked node
MixedDone ==
    /\ gesture.pc = "done"
    /\ \E k \in 1..Len(gesture.deletedNodes) : ~gesture.deletedNodes[k].data.locked

\* C9 (as stated): for a selection with at least one unlocked node a delete
\* request is issued for each unlocked node and for no locked node.
C9_EveryUnlockedRequested ==
    MixedDone =>
        \A k \in 1..Len(gesture.deletedNodes) :
            (\E r \in 1..Len(requests) :
                /\ requests[r].op = "removeNode"
                /\ requests[r].id = gesture.deletedNodes[k].id)
            <=> ~gesture.deletedNodes[k].data.locked

\* C9 (amended): no delete request is issued for a locked node; the unlocked
\* nodes are requested one each in selection order, and every unlocked node
\* is requested unless an earlier delete request failed.
C9_UnlockedRequestedUntilFailure ==
    MixedDone =>
        /\ \A k \in 1..Len(gesture.deletedNodes) :
              gesture.deletedNodes[k].data.locked =>
                  \A r \in 1..Len(requests) :
                      ~(requests[r].op = "removeNode"
                        /\ requests[r].id = gesture.deletedNodes[k].id)
        /\ IsPrefix(RequestedIds("removeNode"),
                    IdsOf(SelectSeq(gesture.deletedNodes,
                                    LAMBDA n : ~n.data.locked)))
        /\ \/ Len(RequestedIds("removeNode")) =
                Len(SelectSeq(gesture.deletedNodes, LAMBDA n : ~n.data.locked))
           \/ /\ gesture.result = "false"
              /\ requests[Len(requests)].op = "removeNode"

\* nodes 1, 2, 3 selected, node 2 locked: requests for 1 and 3 only
C9_Witness ==
    /\ gesture.pc = "done"
    /\ gesture.result = "true"
    /\ IdsOf(gesture.deletedNodes) = <<1, 2, 3>>
    /\ gesture.deletedNodes[2].data.locked
    /\ RequestedIds("removeNode") = <<1, 3>>

\* the gesture has returned for a non-empty selection of locked nodes only
AllLockedDone ==
    /\ gesture.pc = "done"
    /\ Len(gesture.deletedNodes) > 0
    /\ \A k \in 1..Len(gesture.deletedNodes) : gesture.deletedNodes[k].data.locked

\* C10: when every selected node is locked, no delete request is issued for
\* any node or edge of the selection and the gesture returns false.
C10_AllLockedCancels ==
    AllLockedDone => (requests = <<>> /\ gesture.result = "false")

\* two locked nodes and an edge were selected; nothing was requested
C10_Witness ==
    /\ AllLockedDone
    /\ Len(gesture.deletedNodes) = 2
    /\ Len(gesture.deletedEdges) >= 1
    /\ requests = <<>>
    /\ gesture.result = "false"


\* the calls a gesture has to make for its selection: the unlocked nodes in
\* selection order, then the edges
CallsFor(g) ==
    LET ns == SelectSeq(g.deletedNodes, LAMBDA n : ~n.data.locked)
    IN [k \in 1..Len(ns) |-> [op |-> "removeNode", id |-> ns[k].id]]
       \o [k \in 1..Len(g.deletedEdges) |->
               [op |-> "removeEdge", id |-> g.deletedEdges[k].id]]

\* C23: in a batch delete that proceeds, the delete requests are issued one
\* at a time, each after the previous one has completed, unlocked nodes
\* first and then edges; when a request fails no further request is issued,
\* the gesture returns false and nothing is removed locally.
C23_SequentialUntilFailure ==
    [][/\ gesture'.pc # "idle" =>
            /\ IsPrefix(requests', CallsFor(gesture'))
            /\ Len(requests') <= Len(requests) + 1
            /\ gesture'.pc = "await" => Len(requests') = gesture'.i
       /\ (gesture.pc = "await" /\ gesture'.result = "false") =>
            /\ requests' = requests
            /\ gesture'.pc = "done"
       /\ gesture.pc \in {"done", "removed"} => requests' = requests
       /\ gesture.result = "false" =>
            /\ nodes' = nodes
            /\ edges' = edges
            /\ gesture' = gesture]_vars

\* three calls were due, the second failed: two requests, the gesture has
\* returned false and the store holds what it held
C23_Witness ==
    /\ gesture.pc = "done"
    /\ gesture.result = "false"
    /\ Len(CallsFor(gesture)) = 3
    /\ Len(requests) = 2
    /\ requests[2].op = "removeEdge"
    /\ Len(nodes) = MaxNodes
    /\ Len(edges) = MaxEdges

\* C24: after a batch delete of a selection with locked and unlocked nodes
\* whose delete requests all succeeded, every locked node of the selection
\* is still in the store.
C24_LockedNodesStay ==
    (gesture.pc \in {"done", "removed"} /\ gesture.result = "true") =>
        \A k \in 1..Len(gesture.deletedNodes) :
            gesture.deletedNodes[k].data.locked =>
                gesture.deletedNodes[k].id \in Ids(nodes)

----------------------------------------------------------------------------
(* SpecViewport: the viewport persister (helpers/mapViewport.ts).  Time is  *)
(* in milliseconds; coordinates are in hundredths of a unit and zoom in     *)
(* ten-thousandths, so that the thresholds 0.1 and 0.001 are whole numbers. *)
(* A timer runs its callback at the time it is due.                         *)

\* setTimeout(..., 500)
DebounceMs == 500

\* Math.abs(viewport.x - lastPersisted.x) < 0.1, in hundredths
PosEps == 10

\* Math.abs(viewport.zoom - lastPersisted.zoom) < 0.001, in ten-thousandths
ZoomEps == 10

MaxCalls == 2
MaxTime == 1500

\* {x: 100, y: 100, zoom: 1}, then x moved by 0.05 and by 0.1, y moved by
\* 0.1, zoom changed by 0.001
Viewports ==
    {[x |-> 10000, y |-> 10000, zoom |-> 10000],
     [x |-> 10005, y |-> 10000, zoom |-> 10000],
     [x |-> 10010, y |-> 10000, zoom |-> 10000],
     [x |-> 10000, y |-> 10010, zoom |-> 10000],
     [x |-> 10000, y |-> 10000, zoom |-> 10010]}

\* the time that may pass between two steps
Delays == {250, 500}

\* a pending timer is left running and the new call is dropped
Rearm_keepPending(timer, t, viewport) ==
    IF timer.pending THEN timer
    ELSE [pending |-> TRUE, due |-> t + DebounceMs, viewport |-> viewport]

\* clearTimeout(debounceTimer); debounceTimer = setTimeout(..., 500)
Rearm(timer, t, viewport) ==
    [pending |-> TRUE, due |-> t + DebounceMs, viewport |-> viewport]

\* the gate without the zoom comparison
Unchanged_noZoom(viewport, last) ==
    /\ last # NullRec
    /\ Abs(viewport.x - last.x) < PosEps
    /\ Abs(viewport.y - last.y) < PosEps

\* the condition under which the timer callback returns without a request
Unchanged(viewport, last) ==
    /\ last # NullRec
    /\ Abs(viewport.x - last.x) < PosEps
    /\ Abs(viewport.y - last.y) < PosEps
    /\ Abs(viewport.zoom - last.zoom) < ZoomEps

notViewport == <<viewVars, histVars, resumeVars, backendVars, gestureVars,
                 switchVars, mutationVars, moreVars>>

\* persist(viewport)
persist ==
    /\ Len(calls) < MaxCalls
    /\ \E viewport \in Viewports :
        /\ debounceTimer' = Rearm(debounceTimer, now, viewport)
        /\ calls' = Append(calls, [time |-> now, viewport |-> viewport])
    /\ cleaned' = FALSE
    /\ UNCHANGED <<now, lastPersisted, patches, saved, writes, fires>>
    /\ UNCHANGED notViewport

\* the timer callback up to its await
TimerFire ==
    /\ debounceTimer.pending
    /\ now = debounceTimer.due
    /\ debounceTimer' = [debounceTimer EXCEPT !.pending = FALSE]
    /\ fires' = fires + 1
    /\ IF Unchanged(debounceTimer.viewport, lastPersisted)
       THEN UNCHANGED <<patches, writes>>
       ELSE /\ patches' = Append(patches, debounceTimer.viewport)
            /\ writes' = Append(writes, [time |-> now,
                                         viewport |-> debounceTimer.viewport])
    /\ UNCHANGED <<now, lastPersisted, saved, calls, cleaned>>
    /\ UNCHANGED notViewport

\* a PATCH returns (with or without an error body) and the callback resumes
PatchReturned ==
    /\ \E i \in 1..Len(patches), ok \in BOOLEAN :
        /\ lastPersisted' = patches[i]
        /\ saved' = IF ok THEN patches[i] ELSE saved
        /\ patches' = RemoveAt(patches, i)
    /\ UNCHANGED <<now, debounceTimer, writes, calls, fires, cleaned>>
    /\ UNCHANGED notViewport

\* fetch rejects (no response): the await throws and the callback ends
PatchThrew ==
    /\ \E i \in 1..Len(patches) : patches' = RemoveAt(patches, i)
    /\ UNCHANGED <<now, debounceTimer, lastPersisted, saved, writes, calls,
                   fires, cleaned>>
    /\ UNCHANGED notViewport

\* cleanup() that forgets the timer without clearing it
cleanup_noClear ==
    /\ ~cleaned
    /\ cleaned' = TRUE
    /\ UNCHANGED <<now, debounceTimer, lastPersisted, patches, saved, writes,
                   calls, fires>>
    /\ UNCHANGED notViewport

\* cleanup(): if (debounceTimer) clearTimeout(debounceTimer)
cleanup ==
    /\ ~cleaned
    /\ debounceTimer' = [debounceTimer EXCEPT !.pending = FALSE]
    /\ cleaned' = TRUE
    /\ UNCHANGED <<now, lastPersisted, patches, saved, writes, calls, fires>>
    /\ UNCHANGED notViewport

\* time passes, but not beyond the moment a pending timer is due
Tick ==
    /\ \E d \in Delays :
        /\ now + d <= MaxTime
        /\ debounceTimer.pending => now + d <= debounceTimer.due
        /\ now' = now + d
    /\ UNCHANGED <<debounceTimer, lastPersisted, patches, saved, writes, calls,
                   fires, cleaned>>
    /\ UNCHANGED notViewport

InitViewport ==
    /\ Loaded(ResumeSnapshot, FALSE)
    /\ HistInit
    /\ ResumeIdle
    /\ BackendIdle
    /\ GestureIdle
    /\ ExtraIdle

NextViewport ==
    \/ persist
    \/ TimerFire
    \/ PatchReturned
    \/ PatchThrew
    \/ cleanup
    \/ Tick

SpecViewport == InitViewport /\ [][NextViewport]_vars

\* call c is the last one of its burst: no call follows within the window
LastOfBurst(c) ==
    c < Len(calls) => calls[c + 1].time >= calls[c].time + DebounceMs

\* C11: a burst of persist calls, each less than 500 ms after the previous
\* one, results in at most one write; the write is issued 500 ms after the
\* burst's last call and carries that call's viewport.
C11_DebouncedWrite ==
    /\ \A w \in 1..Len(writes) :
          \E c \in 1..Len(calls) :
              /\ LastOfBurst(c)
              /\ writes[w].time = calls[c].time + DebounceMs
              /\ writes[w].viewport = calls[c].viewport
    /\ \A w1, w2 \in 1..Len(writes) :
          writes[w1].time = writes[w2].time => w1 = w2

\* persist twice 250 ms apart with different viewports: one write, the second
C11_Witness ==
    /\ Len(calls) = 2
    /\ calls[2].time - calls[1].time < DebounceMs
    /\ calls[2].viewport # calls[1].viewport
    /\ now >= calls[2].time + DebounceMs
    /\ Len(writes) = 1
    /\ writes[1].viewport = calls[2].viewport

\* this step runs a timer callback
TimerFires == fires' = fires + 1

\* C12: when a timer fires, a write is issued exactly if no viewport has been
\* committed yet or the viewport differs from the last committed one by at
\* least 0.1 in x or in y or by at least 0.001 in zoom.
C12_ChangeGate ==
    [][TimerFires =>
        ((Len(writes') = Len(writes) + 1) <=>
            \/ lastPersisted = NullRec
            \/ Abs(debounceTimer.viewport.x - lastPersisted.x) >= PosEps
            \/ Abs(debounceTimer.viewport.y - lastPersisted.y) >= PosEps
            \/ Abs(debounceTimer.viewport.zoom - lastPersisted.zoom) >= ZoomEps)]_vars

\* a viewport was committed, persisted again unchanged, and the second timer
\* callback issued nothing
C12_Witness ==
    /\ fires = 2
    /\ Len(writes) = 1
    /\ Len(calls) = 2
    /\ lastPersisted = calls[2].viewport
    /\ calls[1].viewport = calls[2].viewport
    /\ ~debounceTimer.pending

\* C22: after cleanup(), as long as persist is not called again, no write
\* is initiated and no timer callback runs: a call that was pending when
\* cleanup was called never fires.
C22_CleanupCancels ==
    [][(cleaned /\ cleaned') =>
            /\ writes' = writes
            /\ fires' = fires
            /\ ~debounceTimer'.pending]_vars

\* persist was called once, cleanup was called before the timer was due, and
\* more than 500 ms after the call nothing has been written
C22_Witness ==
    /\ cleaned
    /\ Len(calls) = 1
    /\ now > calls[1].time + DebounceMs
    /\ fires = 0
    /\ writes = <<>>

\* C26: the reference viewport of the change gate changes only when a write
\* has succeeded, and then becomes the viewport the backend has stored; so
\* a timer callback for the viewport of a rejected write issues the write
\* again.
C26_ReferenceIsLastSuccess ==
    [][/\ lastPersisted' # lastPersisted => lastPersisted' = saved'
       /\ (TimerFires /\ ~Unchanged(debounceTimer.viewport, saved)) =>
              Len(writes') = Len(writes) + 1]_vars

\* C36: when two viewport writes are in flight together and the one issued
\* later has returned and set the reference, the return of the earlier one
\* leaves the reference at the later write's viewport.
C36_LaterWriteWins ==
    [][(/\ Len(writes) >= 2
        /\ Len(patches) = 1
        /\ patches' = <<>>
        /\ lastPersisted = writes[Len(writes)].viewport) =>
            lastPersisted' = writes[Len(writes)].viewport]_vars

----------------------------------------------------------------------------
(* SpecSwitch: the map view while its map_id prop changes, its map is       *)
(* loaded and reloaded, and the user changes the selection.                 *)

\* the map_id prop changes: the $effect's cleanup runs and init() starts
SwitchMap ==
    /\ initPc = "done"
    /\ \E m \in MapIds \ {map_id} : map_id' = m
    /\ sse' = [state |-> "none", cursor |-> 0]
    /\ debounceTimer' = [debounceTimer EXCEPT !.pending = FALSE]
    /\ cleaned' = TRUE
    /\ initPc' = "started"
    /\ UNCHANGED <<viewVars, histVars, resumeVars, backend, load, gestureVars>>
    /\ UNCHANGED <<now, lastPersisted, patches, saved, writes, calls, fires,
                   selectedUnder, mutationVars>>
    /\ UNCHANGED moreVars

\* init() after loadViewport and setSelectedMap: a new viewport persister,
\* then loadMap up to its await
InitLoadMap ==
    /\ initPc = "started"
    /\ load = NullRec
    /\ debounceTimer' = [pending |-> FALSE, due |-> 0, viewport |-> NullRec]
    /\ lastPersisted' = NullRec
    /\ cleaned' = FALSE
    /\ loading' = TRUE
    /\ error' = Null
    /\ load' = [phase |-> "sent"]
    /\ initPc' = "loading"
    /\ UNCHANGED <<nodes, edges, mapInfo, edgeType, rankdir, locked,
                   lastEventId, mapSelection>>
    /\ UNCHANGED <<histVars, resumeVars, backend, sse, gestureVars>>
    /\ UNCHANGED <<now, patches, saved, writes, calls, fires, map_id,
                   selectedUnder, mutationVars>>
    /\ UNCHANGED moreVars

\* handleSelectionChange({ nodes: selectedNodes })
handleSelectionChange ==
    /\ \E I \in SUBSET (1..Len(nodes)) :
        LET selectedNodes == Pick(nodes, I)
        IN IF Len(selectedNodes) = 1
           THEN /\ mapSelection' = selectNode(mapSelection, selectedNodes[1].data)
                /\ selectedUnder' = mapSelection.mapId
           ELSE /\ mapSelection' = clearSelection(mapSelection)
                /\ selectedUnder' = Null
    /\ UNCHANGED <<nodes, edges, mapInfo, edgeType, rankdir, locked, loading,
                   error, lastEventId>>
    /\ UNCHANGED <<histVars, resumeVars, backendVars, gestureVars>>
    /\ UNCHANGED <<viewportVars, map_id, initPc, mutationVars>>
    /\ UNCHANGED moreVars

InitSwitch == InitSync

NextSwitch ==
    \/ SwitchMap
    \/ InitLoadMap
    \/ ServeLoad
    \/ LoadDone
    \/ LoadFailed
    \/ Reload
    \/ handleSelectionChange

SpecSwitch == InitSwitch /\ [][NextSwitch]_vars

\* C13: a step that changes the store's mapId sets isReadOnly from the loaded
\* map and selectedNode to null in the same update, and in no state is a
\* node selected that was selected while the store held another mapId.
C13_AtomicMapSwitch ==
    [][/\ mapSelection'.mapId # mapSelection.mapId =>
            /\ mapSelection'.mapId = map_id
            /\ mapSelection'.selectedNode = NullRec
            /\ mapSelection'.isReadOnly = (load.data.map.edit_access = FALSE)
       /\ mapSelection'.selectedNode # NullRec =>
            selectedUnder' = mapSelection'.mapId]_vars

\* a node was selected on map1, the view switched to map2 (read-only) and
\* its load completed: the store holds map2 and no selection
C13_Witness ==
    /\ map_id = "map2"
    /\ mapSelection.mapId = "map2"
    /\ mapSelection.isReadOnly
    /\ mapSelection.selectedNode = NullRec
    /\ selectedUnder = "map1"

\* C31: the connection is opened only when the load started by init() has
\* finished; after a successful load it starts at the last_event_id the
\* load returned, and after a failed load it is opened without a cursor.
C31_OpenedAtLoadedCursor ==
    [][(sse.state # "open" /\ sse'.state = "open") =>
            /\ load # NullRec
            /\ load.phase \in {"answered", "failed"}
            /\ load' = NullRec
            /\ load.phase = "answered" =>
                  sse'.cursor = load.data.last_event_id
            /\ load.phase = "failed" => lastEventId' = NoEventId]_vars

----------------------------------------------------------------------------
(* SpecMutate: the mutation actions (helpers/mapContextActions.ts) against  *)
(* the backend.  An action issues its request and awaits the response; the  *)
(* backend either commits the mutation and emits its event, or rejects the  *)
(* request.  The view applies the events of the stream and may reload.      *)

\* the calls the view's handlers can make for the displayed nodes and edges
ActionCalls(ns, es) ==
    {[name |-> "removeNode", id |-> i, body |-> NoData] : i \in Ids(ns)}
    \cup {[name |-> "toggleNodeLock", id |-> ns[k].id,
           body |-> [locked |-> ~ns[k].data.locked]] : k \in 1..Len(ns)}
    \cup {[name |-> "updateNodePosition", id |-> i,
           body |-> [pos_x |-> 10, pos_y |-> 20]] : i \in Ids(ns)}
    \cup {[name |-> "updateNodeSystem", id |-> i,
           body |-> [system_id |-> 1]] : i \in Ids(ns)}
    \cup {[name |-> "createNode", id |-> 0,
           body |-> [system_id |-> 1, pos_x |-> 10, pos_y |-> 20]]}
    \cup {[name |-> "removeEdge", id |-> i, body |-> NoData] : i \in Ids(es)}
    \cup {[name |-> "updateEdgeMassStatus", id |-> i,
           body |-> [mass_usage |-> 2]] : i \in Ids(es)}
    \cup {[name |-> "updateEdgeLifetimeStatus", id |-> i,
           body |-> [lifetime_status |-> "eol"]] : i \in Ids(es)}
    \cup {[name |-> "reverseEdge", id |-> i,
           body |-> [reverse |-> TRUE]] : i \in Ids(es)}
    \cup {[name |-> "setEdgeWormholeType", id |-> i,
           body |-> [wormhole_id |-> "H296"]] : i \in Ids(es)}
    \cup {[name |-> "createNodeWithConnection", id |-> i,
           body |-> [system_id |-> 1, pos_x |-> 10, pos_y |-> 20,
                     wormhole_id |-> "H296"]] : i \in Ids(ns)}

\* the request an action issues at its first or second await
RequestOf(call, step, created) ==
    IF call.name = "createNodeWithConnection"
    THEN IF step = 1
         THEN [op |-> "createNode", id |-> 0,
               body |-> [system_id |-> call.body.system_id,
                         pos_x |-> call.body.pos_x, pos_y |-> call.body.pos_y]]
         ELSE [op |-> "createEdge", id |-> 0,
               body |-> [source_node_id |-> call.id,
                         target_node_id |-> created,
                         wormhole_id |-> call.body.wormhole_id]]
    ELSE [op |-> call.name, id |-> call.id, body |-> call.body]

\* the ids the backend has not used yet
FreshIds(S, held, types) == S \ (Ids(held) \cup LogIds(eventLog, types))

\* the event the backend emits when it commits the request, NoEvent when the
\* request names an entity the backend does not hold or no id is left
MutationEvent(req) ==
    LET node == CHOOSE n \in Range(backend.nodes) : n.id = req.id
        link == CHOOSE l \in Range(backend.links) : l.id = req.id
        nodeOps == {"removeNode", "toggleNodeLock", "updateNodePosition",
                    "updateNodeSystem"}
        freshNodes == FreshIds(NodeIds, backend.nodes, NodeEvents)
        freshLinks == FreshIds(EdgeIds, backend.links, LinkEvents)
    IN IF req.op \in nodeOps
       THEN IF req.id \notin Ids(backend.nodes) THEN NoEvent
            ELSE CASE req.op = "removeNode" ->
                        Event("node_deleted", [node_id |-> req.id])
                   [] req.op = "toggleNodeLock" ->
                        Event("node_updated",
                              [node EXCEPT !.locked = req.body.locked])
                   [] req.op = "updateNodePosition" ->
                        Event("node_updated",
                              [node EXCEPT !.pos_x = req.body.pos_x,
                                           !.pos_y = req.body.pos_y])
                   [] req.op = "updateNodeSystem" ->
                        Event("node_updated", node)
       ELSE IF req.op = "createNode"
       THEN IF freshNodes = {} THEN NoEvent
            ELSE Event("node_created",
                       [id |-> CHOOSE i \in freshNodes :
                                  \A j \in freshNodes : i <= j,
                        pos_x |-> req.body.pos_x, pos_y |-> req.body.pos_y,
                        locked |-> FALSE])
       ELSE IF req.op = "createEdge"
       THEN IF freshLinks = {} THEN NoEvent
            ELSE Event("link_created",
                       [id |-> CHOOSE i \in freshLinks :
                                  \A j \in freshLinks : i <= j,
                        source_node_id |-> req.body.source_node_id,
                        target_node_id |-> req.body.target_node_id,
                        wormhole_code |-> Null, mass_usage |-> 0,
                        lifetime_status |-> "stable"])
       ELSE IF req.id \notin Ids(backend.links) THEN NoEvent
       ELSE CASE req.op = "removeEdge" ->
                   Event("link_deleted", [link_id |-> req.id])
              [] req.op = "updateEdgeMassStatus" ->
                   Event("link_updated",
                         [link EXCEPT !.mass_usage = req.body.mass_usage])
              [] req.op = "updateEdgeLifetimeStatus" ->
                   Event("link_updated",
                         [link EXCEPT !.lifetime_status =
                                          req.body.lifetime_status])
              [] req.op = "reverseEdge" ->
                   Event("link_updated",
                         [link EXCEPT !.source_node_id = link.target_node_id,
                                      !.target_node_id = link.source_node_id])
              [] req.op = "setEdgeWormholeType" ->
                   Event("link_updated",
                         [link EXCEPT !.wormhole_code = req.body.wormhole_id])

\* the rendering layer, bound to nodes, moves the draggable nodes the user
\* drags and drops
FlowDrag ==
    /\ drag.pc = "idle"
    /\ ~locked
    /\ invoked < MaxActions
    /\ \E I \in SUBSET {k \in 1..Len(nodes) : nodes[k].draggable} :
        /\ I # {}
        /\ nodes' = [k \in 1..Len(nodes) |->
                        IF k \in I
                        THEN [nodes[k] EXCEPT !.position = [x |-> 10, y |-> 20]]
                        ELSE nodes[k]]
        /\ drag' = [pc |-> "dragged", draggedNodes |-> Pick(nodes', I),
                    i |-> 0]
    /\ invoked' = invoked + 1
    /\ UNCHANGED <<edges, mapInfo, edgeType, rankdir, locked, loading, error,
                   lastEventId, mapSelection>>
    /\ UNCHANGED <<histVars, resumeVars, backendVars, gestureVars>>
    /\ UNCHANGED <<viewportVars, switchVars, action, toasts>>
    /\ UNCHANGED <<runs, mounted, sigPanel, notesPanel, fetches>>

\* the request updateNodePosition issues for a dragged node
DragCall(node) ==
    [op |-> "updateNodePosition", id |-> node.id,
     body |-> [pos_x |-> node.position.x, pos_y |-> node.position.y]]

\* handleSelectionDragStop(_event, draggedNodes) up to its first await
handleSelectionDragStop ==
    /\ drag.pc = "dragged"
    /\ drag' = [drag EXCEPT !.pc = "await", !.i = 1]
    /\ requests' = Append(requests, DragCall(drag.draggedNodes[1]))
    /\ UNCHANGED <<viewVars, histVars, resumeVars, backendVars, gesture>>
    /\ UNCHANGED <<viewportVars, switchVars, mutationVars>>
    /\ UNCHANGED <<runs, mounted, sigPanel, notesPanel, fetches>>

\* the loop after the awaited call has returned, whatever its result
DragNext(d, reqs) ==
    IF d.i = Len(d.draggedNodes)
    THEN [drag |-> [d EXCEPT !.pc = "done"], requests |-> reqs]
    ELSE [drag |-> [d EXCEPT !.i = d.i + 1],
          requests |-> Append(reqs, DragCall(d.draggedNodes[d.i + 1]))]

\* the loop leaving at a call that returned { success: false }
DragAfterFailure_stop(d, reqs) ==
    [drag |-> [d EXCEPT !.pc = "done"], requests |-> reqs]

\* the loop after a call that returned { success: false }: the result is
\* not looked at
DragAfterFailure(d, reqs) == DragNext(d, reqs)

\* the backend answers the awaited PATCH, updateNodePosition returns and the
\* loop goes on
updateNodePositionReturned ==
    /\ drag.pc = "await"
    /\ LET req == DragCall(drag.draggedNodes[drag.i])
           ev == MutationEvent(req)
       IN \/ /\ ev # NoEvent
             /\ eventLog' = Append(eventLog, ev)
             /\ backend' = [nodes |-> BackendNodesAfter(ev, backend.nodes),
                            links |-> BackendLinksAfter(ev, backend.links)]
             /\ drag' = DragNext(drag, requests).drag
             /\ requests' = DragNext(drag, requests).requests
             /\ UNCHANGED toasts
          \/ /\ \E err \in ErrorBodies :
                    toasts' = showError(toasts,
                                  ErrorText(err, Fallback("updateNodePosition")))
             /\ drag' = DragAfterFailure(drag, requests).drag
             /\ requests' = DragAfterFailure(drag, requests).requests
             /\ UNCHANGED <<eventLog, backend>>
    /\ UNCHANGED <<viewVars, histVars, replayPos, ref, sse, load, gesture>>
    /\ UNCHANGED <<viewportVars, switchVars, action, invoked>>
    /\ UNCHANGED <<runs, mounted, sigPanel, notesPanel, fetches>>

\* an action that has just issued its first request
Started(call) ==
    [pc |-> "await", call |-> call, step |-> 1, response |-> NullRec,
     created |-> 0, result |-> Null]

\* a handler of the view calls one of the mutation actions
InvokeAction ==
    /\ action.pc \in {"idle", "done"}
    /\ invoked < MaxActions
    /\ \E call \in ActionCalls(nodes, edges) :
        /\ action' = Started(call)
        /\ requests' = Append(requests, RequestOf(call, 1, 0))
    /\ invoked' = invoked + 1
    /\ UNCHANGED <<viewVars, histVars, resumeVars, backendVars, gesture>>
    /\ UNCHANGED <<viewportVars, switchVars, toasts>>
    /\ UNCHANGED moreVars

\* handleBeforeConnect returning the connection instead of null: the
\* rendering layer adds the drawn edge to the bound collection
handleBeforeConnect_optimistic ==
    /\ action.pc \in {"idle", "done"}
    /\ invoked < MaxActions
    /\ \E source \in Ids(nodes), target \in Ids(nodes) :
        LET call == [name |-> "createEdge", id |-> 0,
                     body |-> [source_node_id |-> source,
                               target_node_id |-> target]]
        IN /\ source # target
           /\ action' = Started(call)
           /\ requests' = Append(requests, RequestOf(call, 1, 0))
           /\ edges' = Append(edges, [id |-> 0, source |-> source,
                                      target |-> target])
    /\ invoked' = invoked + 1
    /\ UNCHANGED <<nodes, mapInfo, edgeType, rankdir, locked, loading, error,
                   lastEventId, mapSelection>>
    /\ UNCHANGED <<histVars, resumeVars, backendVars, gesture>>
    /\ UNCHANGED <<viewportVars, switchVars, toasts>>
    /\ UNCHANGED moreVars

\* handleBeforeConnect(connection): createEdge is called and not awaited,
\* and null is returned so that the rendering layer adds no edge
handleBeforeConnect ==
    /\ action.pc \in {"idle", "done"}
    /\ invoked < MaxActions
    /\ \E source \in Ids(nodes), target \in Ids(nodes) :
        LET call == [name |-> "createEdge", id |-> 0,
                     body |-> [source_node_id |-> source,
                               target_node_id |-> target]]
        IN /\ source # target
           /\ action' = Started(call)
           /\ requests' = Append(requests, RequestOf(call, 1, 0))
    /\ invoked' = invoked + 1
    /\ UNCHANGED <<viewVars, histVars, resumeVars, backendVars, gesture>>
    /\ UNCHANGED <<viewportVars, switchVars, toasts>>
    /\ UNCHANGED moreVars

\* the backend answers the awaited request: it commits the mutation and emits
\* its event, or it rejects the request with an error body
BackendRespond ==
    /\ action.pc = "await"
    /\ action.response = NullRec
    /\ LET req == RequestOf(action.call, action.step, action.created)
           ev == MutationEvent(req)
       IN \/ /\ ev # NoEvent
             /\ eventLog' = Append(eventLog, ev)
             /\ backend' = [nodes |-> BackendNodesAfter(ev, backend.nodes),
                            links |-> BackendLinksAfter(ev, backend.links)]
             /\ \E data \in IF ev.type = "node_created"
                            THEN {[node_id |-> ev.data.id], NullRec}
                            ELSE {NoData} :
                    action' = [action EXCEPT
                                  !.response = [ok |-> TRUE, data |-> data]]
          \/ /\ \E err \in ErrorBodies :
                    action' = [action EXCEPT
                                  !.response = [ok |-> FALSE, error |-> err]]
             /\ UNCHANGED <<eventLog, backend>>
    /\ UNCHANGED <<viewVars, histVars, replayPos, ref, sse, load, gestureVars>>
    /\ UNCHANGED <<viewportVars, switchVars, toasts, invoked>>
    /\ UNCHANGED moreVars

\* the response counts as a failure: an error, or no data where
\* createNodeWithConnection needs the created node
Failed(a) ==
    \/ ~a.response.ok
    \/ /\ a.call.name = "createNodeWithConnection"
       /\ a.step = 1
       /\ a.response.data = NullRec

\* the action after its await, where a failed link creation is followed by
\* a request that removes the created node again
ActionResume_compensating ==
    /\ action.pc = "await"
    /\ action.response # NullRec
    /\ LET req == RequestOf(action.call, action.step, action.created)
       IN IF Failed(action)
          THEN /\ toasts' = showError(toasts,
                                ErrorText(IF action.response.ok THEN NoData
                                          ELSE action.response.error,
                                          Fallback(req.op)))
               /\ action' = [action EXCEPT !.pc = "done", !.result = "false"]
               /\ requests' = IF action.step = 2
                              THEN Append(requests,
                                          [op |-> "removeNode",
                                           id |-> action.created,
                                           body |-> NoData])
                              ELSE requests
          ELSE IF action.call.name = "createNodeWithConnection"
                  /\ action.step = 1
          THEN /\ action' = [action EXCEPT
                                !.step = 2, !.response = NullRec,
                                !.created = action.response.data.node_id]
               /\ requests' = Append(requests,
                                  RequestOf(action.call, 2,
                                            action.response.data.node_id))
               /\ UNCHANGED toasts
          ELSE /\ action' = [action EXCEPT !.pc = "done", !.result = "true"]
               /\ UNCHANGED <<requests, toasts>>
    /\ UNCHANGED <<viewVars, histVars, resumeVars, backendVars, gesture>>
    /\ UNCHANGED <<viewportVars, switchVars, invoked>>
    /\ UNCHANGED moreVars

\* the action after its await: showError and { success: false } on failure,
\* the second request of createNodeWithConnection, or { success: true }
ActionResume ==
    /\ action.pc = "await"
    /\ action.response # NullRec
    /\ LET req == RequestOf(action.call, action.step, action.created)
       IN IF Failed(action)
          THEN /\ toasts' = showError(toasts,
                                ErrorText(IF action.response.ok THEN NoData
                                          ELSE action.response.error,
                                          Fallback(req.op)))
               /\ action' = [action EXCEPT !.pc = "done", !.result = "false"]
               /\ UNCHANGED requests
          ELSE IF action.call.name = "createNodeWithConnection"
                  /\ action.step = 1
          THEN /\ action' = [action EXCEPT
                                !.step = 2, !.response = NullRec,
                                !.created = action.response.data.node_id]
               /\ requests' = Append(requests,
                                  RequestOf(action.call, 2,
                                            action.response.data.node_id))
               /\ UNCHANGED toasts
          ELSE /\ action' = [action EXCEPT !.pc = "done", !.result = "true"]
               /\ UNCHANGED <<requests, toasts>>
    /\ UNCHANGED <<viewVars, histVars, resumeVars, backendVars, gesture>>
    /\ UNCHANGED <<viewportVars, switchVars, invoked>>
    /\ UNCHANGED moreVars

InitMutate ==
    /\ Loaded(ResumeSnapshot, FALSE)
    /\ HistInit
    /\ ResumeIdle
    /\ backend = [nodes |-> ResumeSnapshot.nodes, links |-> ResumeSnapshot.links]
    /\ sse = [state |-> "open", cursor |-> 0]
    /\ load = NullRec
    /\ GestureIdle
    /\ ExtraIdle

NextMutate ==
    \/ InvokeAction
    \/ handleBeforeConnect
    \/ BackendRespond
    \/ ActionResume
    \/ SseDeliver
    \/ Reload
    \/ ServeLoad
    \/ LoadDone
    \/ LoadFailed
    \/ handleBeforeDelete
    \/ DeleteSucceeded
    \/ DeleteFailed
    \/ FlowDelete
    \/ FlowDrag
    \/ handleSelectionDragStop
    \/ updateNodePositionReturned

SpecMutate == InitMutate /\ [][NextMutate]_vars

\* kinds of step under SpecMutate
ActionStep == action' # action

Applied == sse'.cursor = sse.cursor + 1

Reloaded == load # NullRec /\ load.phase = "answered" /\ load' = NullRec

RemovedLocally == gesture.pc = "done" /\ gesture'.pc = "removed"

Dragged == drag.pc = "idle" /\ drag'.pc = "dragged"

\* the requests issued by mutation actions called outside the delete gesture
HasBody(r) == "body" \in DOMAIN r

ActionRequests(reqs) == SelectSeq(reqs, HasBody)

Rejected ==
    /\ action.pc = "await"
    /\ action.response # NullRec
    /\ ~action.response.ok

\* C15: when the backend rejects the request of a mutation action, the
\* action issues no further request, raises exactly one error notification
\* (the backend's detail when present, else the action's fallback string),
\* returns success = false and leaves the local state untouched.
C15_RejectedRequest ==
    [][/\ (Rejected /\ ActionStep) =>
            /\ requests' = requests
            /\ toasts' = Append(toasts,
                  [title |-> "Error",
                   description |->
                       IF "detail" \in DOMAIN action.response.error
                       THEN action.response.error.detail
                       ELSE Fallback(RequestOf(action.call, action.step,
                                               action.created).op),
                   type |-> "error"])
            /\ action'.pc = "done"
            /\ action'.result = "false"
            /\ viewVars' = viewVars
       /\ (/\ action.pc = "done"
           /\ action.result = "false"
           /\ ~ActionStep
           /\ drag' = drag) =>
            ActionRequests(requests') = ActionRequests(requests)]_vars

\* updateNodePosition was rejected with a detail string: one notification
\* carrying it, one request, the node where it was
C15_Witness ==
    /\ action.pc = "done"
    /\ action.result = "false"
    /\ action.call.name = "updateNodePosition"
    /\ Len(ActionRequests(requests)) = 1
    /\ Len(toasts) = 1
    /\ toasts[1].description = "Forbidden"
    /\ \A k \in 1..Len(nodes) : nodes[k].position = [x |-> 0, y |-> 0]

\* createNodeWithConnection is the running (or last) action
CompoundAction ==
    action.pc # "idle" /\ action.call.name = "createNodeWithConnection"

----------------------------------------------------------------------------
(* Properties of the reconciler (checked under Spec) *)

\* this step hands one stream event to its listener
Delivery == delivered' = delivered + 1

\* C1: applying the same node_created (link_created) event twice leaves
\* exactly one entry with that id: the first application appends the entry
\* when the id is absent, the second leaves both collections unchanged.
C1_IdempotentCreate ==
    [][Delivery =>
        /\ lastEvent'.type = "node_created" =>
            /\ lastEvent'.data.id \notin Ids(nodes) =>
                   nodes' = Append(nodes, NodeOf(lastEvent'.data))
            /\ dup' => nodes' = nodes /\ Count(nodes', lastEvent'.data.id) = 1
            /\ edges' = edges
        /\ lastEvent'.type = "link_created" =>
            /\ lastEvent'.data.id \notin Ids(edges) =>
                   edges' = Append(edges, EdgeOf(lastEvent'.data))
            /\ dup' => edges' = edges /\ Count(edges', lastEvent'.data.id) = 1
            /\ nodes' = nodes]_vars

\* a node_created event was applied twice in a row
C1_Witness ==
    /\ dup
    /\ lastEvent.type = "node_created"
    /\ Count(nodes, lastEvent.data.id) = 1

\* C4: node_updated for a present id replaces that node's position and data
\* by the payload's and leaves every other node entry, the order of the
\* nodes and the whole edge collection unchanged.
C4_UpdatePreservesSiblings ==
    [][(Delivery /\ lastEvent'.type = "node_updated"
                 /\ lastEvent'.data.id \in Ids(nodes)) =>
        /\ Len(nodes') = Len(nodes)
        /\ \A i \in 1..Len(nodes) :
              IF nodes[i].id = lastEvent'.data.id
              THEN /\ nodes'[i].id = nodes[i].id
                   /\ nodes'[i].position = [x |-> lastEvent'.data.pos_x,
                                            y |-> lastEvent'.data.pos_y]
                   /\ nodes'[i].data = lastEvent'.data
              ELSE nodes'[i] = nodes[i]
        /\ edges' = edges]_vars

\* the middle node of three was updated to a payload it did not carry before
C4_Witness ==
    /\ lastEvent.type = "node_updated"
    /\ pre.present
    /\ Len(nodes) = 3
    /\ nodes[2].id = lastEvent.data.id
    /\ nodes[2].data = lastEvent.data
    /\ nodes[2].position = [x |-> 10, y |-> 20]

\* C5: link_updated with other endpoints than the stored edge's updates the
\* entry in place: same id, same index, source, target and display fields
\* from the payload, same length, no other edge changed.
C5_ReversalInPlace ==
    [][(Delivery /\ lastEvent'.type = "link_updated" /\ pre'.rewired) =>
        /\ Len(edges') = Len(edges)
        /\ \A i \in 1..Len(edges) :
              IF edges[i].id = lastEvent'.data.id
              THEN /\ edges'[i].id = edges[i].id
                   /\ edges'[i].source = lastEvent'.data.source_node_id
                   /\ edges'[i].target = lastEvent'.data.target_node_id
                   /\ edges'[i].data.wormhole_id = lastEvent'.data.wormhole_code
                   /\ edges'[i].data.mass_remaining = lastEvent'.data.mass_usage
                   /\ edges'[i].data.status = lastEvent'.data.lifetime_status
              ELSE edges'[i] = edges[i]]_vars

\* the first of two edges was reversed by a link_updated event
C5_Witness ==
    /\ lastEvent.type = "link_updated"
    /\ pre.rewired
    /\ Len(edges) = 2
    /\ edges[1].id = lastEvent.data.id
    /\ edges[1].source = 2
    /\ edges[1].target = 1

\* C6: node_deleted / link_deleted for an absent id raises no error and
\* leaves both collections as they are; for a present id exactly that entry
\* is removed.
C6_IdempotentDelete ==
    [][Delivery =>
        /\ lastEvent'.type = "node_deleted" =>
            /\ error' = error
            /\ edges' = edges
            /\ IF lastEvent'.data.node_id \in Ids(nodes)
               THEN \E k \in 1..Len(nodes) :
                        /\ nodes[k].id = lastEvent'.data.node_id
                        /\ nodes' = RemoveAt(nodes, k)
               ELSE nodes' = nodes
        /\ lastEvent'.type = "link_deleted" =>
            /\ error' = error
            /\ nodes' = nodes
            /\ IF lastEvent'.data.link_id \in Ids(edges)
               THEN \E k \in 1..Len(edges) :
                        /\ edges[k].id = lastEvent'.data.link_id
                        /\ edges' = RemoveAt(edges, k)
               ELSE edges' = edges]_vars

\* a node_deleted event for an id that was not in a non-empty store
C6_Witness ==
    /\ lastEvent.type = "node_deleted"
    /\ ~pre.present
    /\ Len(nodes) >= 1
    /\ error = Null

\* the client state the event handlers write
ClientState == <<nodes, edges, mapInfo, edgeType, rankdir, mapSelection>>

\* C7 (as stated): re-applying any stream event immediately after its first
\* application leaves the whole client state, refresh counters included,
\* unchanged.
C7_AllEventsIdempotent ==
    [][(Delivery /\ dup') => ClientState' = ClientState]_vars

\* C7 (amended): re-applying a node_*, link_* or map_updated event leaves the
\* client state unchanged; re-applying a signature_* (note_*) event adds one
\* more to the signature (note) refresh counter and changes nothing else.
C7_IdempotentExceptRefresh ==
    [][(Delivery /\ dup') =>
        /\ <<nodes, edges, mapInfo, edgeType, rankdir>>' =
           <<nodes, edges, mapInfo, edgeType, rankdir>>
        /\ mapSelection' =
             IF lastEvent'.type \in SignatureEvents
             THEN [mapSelection EXCEPT !.signatureRefreshTrigger = @ + 1]
             ELSE IF lastEvent'.type \in NoteEvents
             THEN [mapSelection EXCEPT !.noteRefreshTrigger = @ + 1]
             ELSE mapSelection]_vars

\* a link_deleted event was applied twice in a row while an edge remains
C7_Witness ==
    /\ dup
    /\ lastEvent.type = "link_deleted"
    /\ Len(edges) >= 1

\* C8: no two nodes of the store share an id and no two edges share an id.
C8_UniqueIds == NoDup(nodes) /\ NoDup(edges)

\* a link_created event was repeated and the store holds two edges
C8_Witness ==
    /\ dup
    /\ lastEvent.type = "link_created"
    /\ Len(edges) = 2
    /\ Len(nodes) >= 2

\* C17: node_updated (link_updated) for an id that is not in the store is
\* treated as a creation: afterwards the node (edge) collection holds an
\* entry with that id carrying the payload's fields.
C17_UpdateAbsentCreates ==
    [][Delivery =>
        /\ (lastEvent'.type = "node_updated"
                /\ lastEvent'.data.id \notin Ids(nodes)) =>
            \E k \in 1..Len(nodes') :
                /\ nodes'[k].id = lastEvent'.data.id
                /\ nodes'[k].data = lastEvent'.data
        /\ (lastEvent'.type = "link_updated"
                /\ lastEvent'.data.id \notin Ids(edges)) =>
            \E k \in 1..Len(edges') :
                /\ edges'[k].id = lastEvent'.data.id
                /\ edges'[k].source = lastEvent'.data.source_node_id
                /\ edges'[k].target = lastEvent'.data.target_node_id]_vars

----------------------------------------------------------------------------
(* SpecDrag: a drag of several nodes and the updateNodePosition calls of   *)
(* handleSelectionDragStop, answered by the backend one after another.     *)

InitDrag ==
    /\ \E ns \in LockedNodeLists :
          /\ Loaded([map |-> CHOOSE m \in InitialMaps : TRUE,
                     nodes |-> ns,
                     links |-> ResumeSnapshot.links,
                     last_event_id |-> 0], FALSE)
          /\ backend = [nodes |-> ns, links |-> ResumeSnapshot.links]
    /\ HistInit
    /\ ResumeIdle
    /\ sse = [state |-> "open", cursor |-> 0]
    /\ load = NullRec
    /\ GestureIdle
    /\ ExtraIdle

NextDrag ==
    \/ FlowDrag
    \/ handleSelectionDragStop
    \/ updateNodePositionReturned
    \/ SseDeliver

SpecDrag == InitDrag /\ [][NextDrag]_vars

\* the requests a drag has to make: one per dragged node, in list order
DragCalls(draggedNodes) ==
    [k \in 1..Len(draggedNodes) |->
        [op |-> "updateNodePosition", id |-> draggedNodes[k].id,
         body |-> [pos_x |-> draggedNodes[k].position.x,
                   pos_y |-> draggedNodes[k].position.y]]]

----------------------------------------------------------------------------
(* SpecStream: the listeners of createMapSSE at the level of the frame's   *)
(* text (helpers/mapSSE.ts), with the sync_error listener, the reload it   *)
(* starts and the selection made in the view.                              *)

\* event.data that is not JSON, and event.data that is the JSON text of v
Unparsable == [json |-> FALSE]

Json(v) == [json |-> TRUE, value |-> v]

\* a thrown exception, and JavaScript undefined
Thrown == [thrown |-> TRUE]

Undefined == [undefined |-> TRUE]

\* JSON.parse(event.data)
JSONparse(text) == IF text.json THEN text.value ELSE Thrown

\* data.data of the parsed frame: undefined when the frame has no data
DataOf(text) ==
    LET data == JSONparse(text)
    IN IF data = Thrown THEN Thrown
       ELSE IF "data" \in DOMAIN data THEN data.data
       ELSE Undefined

\* the frame the backend sends for a payload, and a frame without data
Envelope(d) == [event_id |-> 1, data |-> d]

NoDataEnvelope == [event_id |-> 1]

\* the texts a frame may carry, given its well-formed payloads
Texts(D) ==
    {Unparsable, Json(NoDataEnvelope)} \cup {Json(Envelope(d)) : d \in D}

\* the node built with optional chaining, which does not throw
NewNode_optional(nodeData) ==
    IF nodeData = Undefined
    THEN [id |-> 0, position |-> [x |-> 0, y |-> 0], data |-> Undefined,
          draggable |-> TRUE]
    ELSE NodeOf(nodeData)

\* the node the node_created listener builds: reading nodeData.id throws
\* when nodeData is undefined
NewNode(nodeData) ==
    IF nodeData = Undefined THEN Thrown ELSE NodeOf(nodeData)

\* the edge the link_created listener builds
NewEdge(linkData) ==
    IF linkData = Undefined THEN Thrown ELSE EdgeOf(linkData)

\* the node collection after the listener of a node event has run; an
\* exception thrown inside its try block leaves the collection as it was
NodeListener(type, text, ns, viewLocked) ==
    LET nodeData == DataOf(text)
    IN IF nodeData = Thrown THEN ns
       ELSE CASE type = "node_created" ->
                    LET newNode == NewNode(nodeData)
                    IN IF newNode = Thrown THEN ns
                       ELSE onNodeCreated(ns, newNode)
              [] type = "node_updated" ->
                    IF nodeData = Undefined
                    THEN IF ns = <<>> THEN <<>> ELSE ns
                    ELSE onNodeUpdated(ns, nodeData, viewLocked)
              [] type = "node_deleted" ->
                    IF nodeData = Undefined THEN ns
                    ELSE onNodeDeleted(ns, nodeData.node_id)

\* the edge collection after the listener of a link event has run
LinkListener(type, text, es) ==
    LET linkData == DataOf(text)
    IN IF linkData = Thrown THEN es
       ELSE CASE type = "link_created" ->
                    LET newEdge == NewEdge(linkData)
                    IN IF newEdge = Thrown THEN es
                       ELSE onEdgeCreated(es, newEdge)
              [] type = "link_updated" ->
                    IF linkData = Undefined
                    THEN IF es = <<>> THEN <<>> ELSE es
                    ELSE onEdgeUpdated(es, linkData)
              [] type = "link_deleted" ->
                    IF linkData = Undefined THEN es
                    ELSE onEdgeDeleted(es, linkData.link_id)

\* data.data.changes of a map_updated frame, or Thrown
ChangesOf(text) ==
    LET d == DataOf(text)
    IN IF d = Thrown \/ d = Undefined THEN Thrown
       ELSE IF "changes" \in DOMAIN d THEN d.changes
       ELSE Thrown

\* the well-formed payloads of each kind of event
NodePayloads(type) ==
    IF type = "node_deleted" THEN {[node_id |-> i] : i \in NodeIds}
    ELSE NodeInfos

LinkPayloads(type) ==
    IF type = "link_deleted" THEN {[link_id |-> i] : i \in EdgeIds}
    ELSE LinkInfos

MapPayloads == {[changes |-> m] : m \in MapInfos} \cup {[map_id |-> 1]}

\* the open EventSource dispatches one frame to the listener of its name
Receive(type, text) ==
    /\ sse.state = "open"
    /\ delivered < MaxEvents
    /\ delivered' = delivered + 1
    /\ lastEvent' = Event(type, text)
    /\ dup' = (delivered >= 1 /\ lastEvent = Event(type, text))
    /\ pre' = pre

\* node listeners that also hand the event's data to a selection of the
\* same id
node_listener_reselect ==
    \E type \in NodeEvents :
        \E text \in Texts(NodePayloads(type)) :
            /\ Receive(type, text)
            /\ nodes' = NodeListener(type, text, nodes, isLocked)
            /\ mapSelection' =
                  IF /\ type = "node_updated"
                     /\ DataOf(text) # Thrown
                     /\ DataOf(text) # Undefined
                     /\ mapSelection.selectedNode # NullRec
                     /\ mapSelection.selectedNode.id = DataOf(text).id
                  THEN selectNode(mapSelection, DataOf(text))
                  ELSE mapSelection
            /\ UNCHANGED <<edges, mapInfo, edgeType, rankdir, locked, loading,
                           error, lastEventId>>
            /\ UNCHANGED <<resumeVars, backendVars, gestureVars, extraVars>>

node_listener ==
    \E type \in NodeEvents :
        \E text \in Texts(NodePayloads(type)) :
            /\ Receive(type, text)
            /\ nodes' = NodeListener(type, text, nodes, isLocked)
            /\ UNCHANGED <<edges, mapInfo, edgeType, rankdir, locked, loading,
                           error, lastEventId, mapSelection>>
            /\ UNCHANGED <<resumeVars, backendVars, gestureVars, extraVars>>

link_listener ==
    \E type \in LinkEvents :
        \E text \in Texts(LinkPayloads(type)) :
            /\ Receive(type, text)
            /\ edges' = LinkListener(type, text, edges)
            /\ UNCHANGED <<nodes, mapInfo, edgeType, rankdir, locked, loading,
                           error, lastEventId, mapSelection>>
            /\ UNCHANGED <<resumeVars, backendVars, gestureVars, extraVars>>

map_updated_listener ==
    \E text \in Texts(MapPayloads) :
        /\ Receive("map_updated", text)
        /\ LET changes == ChangesOf(text)
           IN IF changes = Thrown
              THEN UNCHANGED <<mapInfo, edgeType, rankdir>>
              ELSE /\ mapInfo' = changes
                   /\ edgeType' = EdgeTypeOf(changes)
                   /\ rankdir' = RankdirOf(changes)
        /\ UNCHANGED <<nodes, edges, locked, loading, error, lastEventId,
                       mapSelection>>
        /\ UNCHANGED <<resumeVars, backendVars, gestureVars, extraVars>>

\* the signature_* listeners: the frame's text is not read
signature_listener ==
    \E name \in SignatureEvents :
        /\ Receive(name, Unparsable)
        /\ mapSelection' = triggerSignatureRefresh(mapSelection)
        /\ UNCHANGED <<nodes, edges, mapInfo, edgeType, rankdir, locked,
                       loading, error, lastEventId>>
        /\ UNCHANGED <<resumeVars, backendVars, gestureVars, extraVars>>

\* the note_* listeners: the frame's text is not read
note_listener ==
    \E name \in NoteEvents :
        /\ Receive(name, Unparsable)
        /\ mapSelection' = triggerNoteRefresh(mapSelection)
        /\ UNCHANGED <<nodes, edges, mapInfo, edgeType, rankdir, locked,
                       loading, error, lastEventId>>
        /\ UNCHANGED <<resumeVars, backendVars, gestureVars, extraVars>>

\* the texts a sync_error frame may carry
SyncErrorTexts ==
    {Unparsable, Json([event_id |-> 1]), Json([message |-> ""]),
     Json([message |-> "Event log truncated"])}

SyncFallback == "Please reload the map"

\* the message passed on without the fallback for an empty one
SyncMessage_raw(text) ==
    LET data == JSONparse(text)
    IN IF data = Thrown THEN SyncFallback
       ELSE IF "message" \in DOMAIN data THEN data.message
       ELSE SyncFallback

\* (data.message as string) || 'Please reload the map', and the same
\* fallback from the catch block
SyncMessage(text) ==
    LET data == JSONparse(text)
    IN IF data = Thrown THEN SyncFallback
       ELSE IF "message" \in DOMAIN data /\ data.message # ""
            THEN data.message
       ELSE SyncFallback

\* a sync_error listener that leaves the connection open
sync_error_keepOpen ==
    \E text \in SyncErrorTexts :
        /\ Receive("sync_error", text)
        /\ toasts' = Append(toasts, [title |-> "Sync Error",
                                     description |-> SyncMessage(text),
                                     type |-> "error"])
        /\ loading' = TRUE
        /\ error' = Null
        /\ load' = [phase |-> "sent"]
        /\ UNCHANGED <<nodes, edges, mapInfo, edgeType, rankdir, locked,
                       lastEventId, mapSelection>>
        /\ UNCHANGED <<resumeVars, backend, sse, gestureVars>>
        /\ UNCHANGED <<viewportVars, switchVars, action, invoked>>
    /\ UNCHANGED moreVars

\* the sync_error listener: onSyncError (a toast, then loadMap up to its
\* await) and eventSource.close()
sync_error ==
    \E text \in SyncErrorTexts :
        /\ Receive("sync_error", text)
        /\ toasts' = Append(toasts, [title |-> "Sync Error",
                                     description |-> SyncMessage(text),
                                     type |-> "error"])
        /\ loading' = TRUE
        /\ error' = Null
        /\ load' = [phase |-> "sent"]
        /\ sse' = [sse EXCEPT !.state = "closed"]
        /\ UNCHANGED <<nodes, edges, mapInfo, edgeType, rankdir, locked,
                       lastEventId, mapSelection>>
        /\ UNCHANGED <<resumeVars, backend, gestureVars>>
        /\ UNCHANGED <<viewportVars, switchVars, action, invoked>>
    /\ UNCHANGED moreVars

InitStream == InitMutate

NextStream ==
    \/ node_listener
    \/ link_listener
    \/ map_updated_listener
    \/ signature_listener
    \/ note_listener
    \/ sync_error
    \/ handleSelectionChange
    \/ ServeLoad
    \/ LoadDone
    \/ LoadFailed

SpecStream == InitStream /\ [][NextStream]_vars

\* the text of a frame cannot be parsed or has no data object
Malformed(text) == ~text.json \/ "data" \notin DOMAIN text.value

ReconciledEvents == NodeEvents \cup LinkEvents \cup {"map_updated"}

\* C18: each sync_error event raises exactly one message (the payload's
\* message when it parses and is not empty, else the fallback string),
\* starts exactly one reload of the map and closes the connection; no event
\* is applied from a closed connection.
C18_SyncError ==
    [][/\ (Delivery /\ lastEvent'.type = "sync_error") =>
            /\ toasts' = Append(toasts,
                  [title |-> "Sync Error",
                   description |->
                       IF /\ lastEvent'.data.json
                          /\ "message" \in DOMAIN lastEvent'.data.value
                          /\ lastEvent'.data.value.message # ""
                       THEN lastEvent'.data.value.message
                       ELSE "Please reload the map",
                   type |-> "error"])
            /\ load = NullRec
            /\ load' = [phase |-> "sent"]
            /\ loading'
            /\ sse'.state = "closed"
       /\ sse.state = "closed" =>
            /\ ~Delivery
            /\ sse' = sse
            /\ toasts' = toasts
            /\ (load = NullRec => load' = NullRec)]_vars

\* a sync_error frame with an empty message was received and its reload has
\* completed: one notification with the fallback, the connection closed
C18_Witness ==
    /\ lastEvent = Event("sync_error", Json([message |-> ""]))
    /\ delivered = 2
    /\ toasts = <<[title |-> "Sync Error",
                   description |-> "Please reload the map",
                   type |-> "error"]>>
    /\ sse.state = "closed"
    /\ load = NullRec
    /\ ~loading

\* C19: a node_*, link_* or map_updated frame whose text cannot be parsed
\* or has no data object changes neither the collections nor the map
\* metadata, raises nothing and leaves the connection open; a well-formed
\* frame received next is applied as the reconciler applies its event.
C19_MalformedSwallowed ==
    [][(Delivery /\ lastEvent'.type \in ReconciledEvents) =>
        IF Malformed(lastEvent'.data)
        THEN /\ <<nodes, edges, mapInfo, edgeType, rankdir>>' =
                <<nodes, edges, mapInfo, edgeType, rankdir>>
             /\ toasts' = toasts
             /\ error' = error
             /\ sse' = sse
             /\ sse.state = "open"
        ELSE (/\ delivered >= 1
              /\ lastEvent.type \in ReconciledEvents
              /\ Malformed(lastEvent.data)) =>
                LET d == lastEvent'.data.value.data
                IN IF lastEvent'.type = "map_updated"
                   THEN "changes" \in DOMAIN d => mapInfo' = d.changes
                   ELSE /\ nodes' = NodesAfter(Event(lastEvent'.type, d),
                                               nodes, isLocked)
                        /\ edges' = EdgesAfter(Event(lastEvent'.type, d),
                                               edges)]_vars

\* a node_updated frame without data reached a store of two nodes, and the
\* connection is still open with nothing raised
C19_Witness ==
    /\ lastEvent = Event("node_updated", Json(NoDataEnvelope))
    /\ Len(nodes) = 2
    /\ sse.state = "open"
    /\ toasts = <<>>
    /\ error = Null

\* C20: each signature_* event adds exactly one to the signature refresh
\* counter and each note_* event exactly one to the note refresh counter;
\* the collections, the map metadata, the selected node and the other
\* counter stay as they were.
C20_RefreshCounters ==
    [][Delivery =>
        /\ lastEvent'.type \in SignatureEvents =>
            /\ mapSelection' = [mapSelection EXCEPT
                                   !.signatureRefreshTrigger = @ + 1]
            /\ <<nodes, edges, mapInfo, edgeType, rankdir>>' =
               <<nodes, edges, mapInfo, edgeType, rankdir>>
        /\ lastEvent'.type \in NoteEvents =>
            /\ mapSelection' = [mapSelection EXCEPT
                                   !.noteRefreshTrigger = @ + 1]
            /\ <<nodes, edges, mapInfo, edgeType, rankdir>>' =
               <<nodes, edges, mapInfo, edgeType, rankdir>>]_vars

\* with a node selected, one signature event and then one note event were
\* received
C20_Witness ==
    /\ lastEvent.type \in NoteEvents
    /\ mapSelection.selectedNode # NullRec
    /\ mapSelection.signatureRefreshTrigger = 1
    /\ mapSelection.noteRefreshTrigger = 1

\* C29: a map_updated event that carries changes replaces the map metadata
\* by the changes as a whole, sets the edge type to the changes' edge_type
\* or 'default' and the layout direction to their rankdir or 'LR', and
\* leaves the nodes and edges as they were.
C29_MapUpdated ==
    [][(/\ Delivery
        /\ lastEvent'.type = "map_updated"
        /\ ~Malformed(lastEvent'.data)
        /\ "changes" \in DOMAIN lastEvent'.data.value.data) =>
            LET changes == lastEvent'.data.value.data.changes
            IN /\ mapInfo' = changes
               /\ edgeType' = IF changes.edge_type = Null THEN "default"
                              ELSE changes.edge_type
               /\ rankdir' = IF changes.rankdir = Null THEN "LR"
                             ELSE changes.rankdir
               /\ nodes' = nodes
               /\ edges' = edges]_vars

\* a map shown with the defaults received a map_updated whose changes name
\* the edge type 'straight' and the direction 'TB' and take edit access
\* away: the metadata is the changes, the nodes and edges are still there
C29_Witness ==
    /\ lastEvent.type = "map_updated"
    /\ ~Malformed(lastEvent.data)
    /\ "changes" \in DOMAIN lastEvent.data.value.data
    /\ mapInfo = lastEvent.data.value.data.changes
    /\ ~mapInfo.edit_access
    /\ edgeType = "straight"
    /\ rankdir = "TB"
    /\ Len(nodes) > 0
    /\ Len(edges) > 0

\* C30: once a map is loaded, the selection store's isReadOnly flag is true
\* exactly when the current map metadata has edit_access = false, after any
\* sequence of loads and map_updated events.
C30_ReadOnlyFollowsMetadata ==
    (mapInfo # NullRec /\ mapSelection.mapId # Null) =>
        (mapSelection.isReadOnly <=> (mapInfo.edit_access = FALSE))

----------------------------------------------------------------------------
(* SpecStore: every operation of the selection store, called as the map    *)
(* view calls it: selections, map switches with their loads, and the       *)
(* signature and note events of the stream.                                *)

InitStore == InitSwitch

NextStore ==
    \/ SwitchMap
    \/ InitLoadMap
    \/ ServeLoad
    \/ LoadDone
    \/ LoadFailed
    \/ Reload
    \/ handleSelectionChange
    \/ signature_listener
    \/ note_listener

SpecStore == InitStore /\ [][NextStore]_vars

\* C27: no operation of the selection store lowers or resets a refresh
\* counter, a map switch included; the signature counter changes only by
\* triggerSignatureRefresh and the note counter only by triggerNoteRefresh,
\* each by one and leaving the rest of the store as it was.
C27_CountersOnlyGrow ==
    [][/\ mapSelection'.signatureRefreshTrigger >=
              mapSelection.signatureRefreshTrigger
       /\ mapSelection'.noteRefreshTrigger >= mapSelection.noteRefreshTrigger
       /\ mapSelection'.signatureRefreshTrigger #
              mapSelection.signatureRefreshTrigger =>
              mapSelection' = triggerSignatureRefresh(mapSelection)
       /\ mapSelection'.noteRefreshTrigger #
              mapSelection.noteRefreshTrigger =>
              mapSelection' = triggerNoteRefresh(mapSelection)
       /\ (\/ mapSelection'.selectedNode # mapSelection.selectedNode
           \/ mapSelection'.mapId # mapSelection.mapId
           \/ mapSelection'.isReadOnly # mapSelection.isReadOnly) =>
              /\ mapSelection'.signatureRefreshTrigger =
                     mapSelection.signatureRefreshTrigger
              /\ mapSelection'.noteRefreshTrigger =
                     mapSelection.noteRefreshTrigger]_vars

\* both counters were raised while a node was selected on map1, then the
\* view switched to map2 and its load set the new map context
C27_Witness ==
    /\ mapSelection.mapId = "map2"
    /\ selectedUnder = "map1"
    /\ mapSelection.selectedNode = NullRec
    /\ initPc = "done"
    /\ mapSelection.signatureRefreshTrigger = 1
    /\ mapSelection.noteRefreshTrigger = 1

----------------------------------------------------------------------------
(* SpecPanel: the side panels (SignatureCard.svelte, NotesCard.svelte).    *)
(* Each panel has an effect that reads the selection store; the framework  *)
(* runs it again after every change of the store, so an effect whose run   *)
(* would do something is eventually run.  A panel's null id is 0.          *)

\* state.selectedNode?.id
NodeIdOf(state) ==
    IF state.selectedNode = NullRec THEN 0 ELSE state.selectedNode.id

\* state.selectedNode?.system_id: the nodes 1 and 2 show the same system
SystemIdOf(state) ==
    IF state.selectedNode = NullRec THEN 0
    ELSE (state.selectedNode.id + 1) \div 2

\* a panel that looks at the loaded key only
ShouldLoad_keyOnly(key, refreshTrigger, panel) == key # panel.lastLoaded

\* nodeId !== lastLoadedNodeId || refreshTrigger !== lastRefreshTrigger
ShouldLoad(key, refreshTrigger, panel) ==
    key # panel.lastLoaded \/ refreshTrigger # panel.lastRefreshTrigger

\* the effect of SignatureCard: loadSignatures and loadConnections
SignatureEffect ==
    /\ LET state == mapSelection
           nodeId == NodeIdOf(state)
           mapId == state.mapId
           refreshTrigger == state.signatureRefreshTrigger
       IN IF nodeId # 0 /\ mapId # Null
          THEN /\ ShouldLoad(nodeId, refreshTrigger, sigPanel)
               /\ sigPanel' = [lastLoaded |-> nodeId,
                               lastRefreshTrigger |-> refreshTrigger]
               /\ fetches' = [fetches EXCEPT !.signatures =
                                 [mapId |-> mapId, id |-> nodeId]]
          ELSE /\ nodeId = 0
               /\ sigPanel.lastLoaded # 0
               /\ sigPanel' = [sigPanel EXCEPT !.lastLoaded = 0]
               /\ UNCHANGED fetches
    /\ UNCHANGED <<viewVars, histVars, resumeVars, backendVars, gestureVars>>
    /\ UNCHANGED <<viewportVars, switchVars, mutationVars>>
    /\ UNCHANGED <<runs, mounted, drag, notesPanel>>

\* the effect of NotesCard: loadNotes
NotesEffect ==
    /\ LET state == mapSelection
           systemId == SystemIdOf(state)
           mapId == state.mapId
           refreshTrigger == state.noteRefreshTrigger
       IN IF systemId # 0 /\ mapId # Null
          THEN /\ ShouldLoad(systemId, refreshTrigger, notesPanel)
               /\ notesPanel' = [lastLoaded |-> systemId,
                                 lastRefreshTrigger |-> refreshTrigger]
               /\ fetches' = [fetches EXCEPT !.notes =
                                 [mapId |-> mapId, id |-> systemId]]
          ELSE /\ systemId = 0
               /\ notesPanel.lastLoaded # 0
               /\ notesPanel' = [notesPanel EXCEPT !.lastLoaded = 0]
               /\ UNCHANGED fetches
    /\ UNCHANGED <<viewVars, histVars, resumeVars, backendVars, gestureVars>>
    /\ UNCHANGED <<viewportVars, switchVars, mutationVars>>
    /\ UNCHANGED <<runs, mounted, drag, sigPanel>>

InitPanel == InitStream

NextPanel ==
    \/ handleSelectionChange
    \/ signature_listener
    \/ note_listener
    \/ SignatureEffect
    \/ NotesEffect

SpecPanel ==
    /\ InitPanel
    /\ [][NextPanel]_vars
    /\ WF_vars(SignatureEffect)
    /\ WF_vars(NotesEffect)

\* a node is selected on a known map
Selected == mapSelection.selectedNode # NullRec /\ mapSelection.mapId # Null

\* the signature counter has changed since the panel last fetched
SignaturesStale ==
    /\ Selected
    /\ mapSelection.signatureRefreshTrigger # sigPanel.lastRefreshTrigger

\* the panel's last fetch was for the selected node at the current counter
SignaturesFresh ==
    /\ Selected
    /\ sigPanel = [lastLoaded |-> mapSelection.selectedNode.id,
                   lastRefreshTrigger |->
                       mapSelection.signatureRefreshTrigger]
    /\ fetches.signatures = [mapId |-> mapSelection.mapId,
                             id |-> mapSelection.selectedNode.id]

NotesStale ==
    /\ Selected
    /\ mapSelection.noteRefreshTrigger # notesPanel.lastRefreshTrigger

NotesFresh ==
    /\ Selected
    /\ notesPanel = [lastLoaded |-> SystemIdOf(mapSelection),
                     lastRefreshTrigger |-> mapSelection.noteRefreshTrigger]
    /\ fetches.notes = [mapId |-> mapSelection.mapId,
                        id |-> SystemIdOf(mapSelection)]

\* a step in which a panel starts a fetch
SignatureFetch == sigPanel' # sigPanel /\ sigPanel'.lastLoaded # 0

NotesFetch == notesPanel' # notesPanel /\ notesPanel'.lastLoaded # 0

\* C28: while a node is selected and the map id is set, a change of the
\* signature counter leads to a fetch of the signatures of the node then
\* selected, and a change of the note counter to a fetch of the notes of
\* its system, unless the selection is cleared first; a fetch is started
\* only for the selected node, so none is started while no node is
\* selected.
C28_CounterLeadsToFetch ==
    /\ SignaturesStale ~> (SignaturesFresh \/ ~Selected)
    /\ NotesStale ~> (NotesFresh \/ ~Selected)
    /\ [][/\ SignatureFetch =>
                /\ Selected
                /\ fetches'.signatures =
                       [mapId |-> mapSelection.mapId,
                        id |-> mapSelection.selectedNode.id]
          /\ NotesFetch =>
                /\ Selected
                /\ fetches'.notes = [mapId |-> mapSelection.mapId,
                                     id |-> SystemIdOf(mapSelection)]
          /\ ~Selected => fetches' = fetches]_vars

\* node 2 is selected, both counters were raised and both panels have
\* fetched again for it at the new counters
C28_Witness ==
    /\ Selected
    /\ mapSelection.selectedNode.id = 2
    /\ mapSelection.signatureRefreshTrigger = 1
    /\ mapSelection.noteRefreshTrigger = 1
    /\ SignaturesFresh
    /\ NotesFresh

----------------------------------------------------------------------------
(* SpecLifecycle: the lifecycle effect of the map view (Map.svelte:445).   *)
(* Every run of the effect starts init(), whose three awaits (viewport,    *)
(* preference, map) return one by one, and opens its connection when       *)
(* init() has resolved; a change of map_id runs the cleanup of the         *)
(* previous run and starts the next one, unmounting runs the cleanup of    *)
(* the last one.  Each run keeps its own sseCleanup, so the connections    *)
(* are followed per run in runs, and sse, load and initPc are not used.    *)

\* a run of the effect up to the first await of init()
NewRun == [pc |-> "viewport", cleaned |-> FALSE, mapId |-> Null,
           open |-> FALSE]

\* createViewportPersister has been called by some run
PersisterExists == \E k \in 1..Len(runs) : runs[k].pc \in {"map", "connected"}

\* the function the effect returned: sseCleanup is still null while the
\* run's init() has not resolved
EffectCleanup(rs) ==
    [k \in 1..Len(rs) |->
        IF k = Len(rs)
        THEN [rs[k] EXCEPT !.cleaned = TRUE,
                           !.open = IF rs[k].pc = "connected" THEN FALSE
                                    ELSE @]
        ELSE rs[k]]

\* await loadViewport(map_id) returns
LoadViewportReturned ==
    /\ \E k \in 1..Len(runs) :
        /\ runs[k].pc = "viewport"
        /\ runs' = [runs EXCEPT ![k].pc = "preference"]
    /\ UNCHANGED <<viewVars, histVars, resumeVars, backendVars, gestureVars>>
    /\ UNCHANGED <<viewportVars, switchVars, mutationVars>>
    /\ UNCHANGED <<mounted, drag, sigPanel, notesPanel, fetches>>

\* await setSelectedMap(map_id) returns: createViewportPersister(map_id),
\* then loadMap up to its await
SetSelectedMapReturned ==
    /\ \E k \in 1..Len(runs) :
        /\ runs[k].pc = "preference"
        /\ runs' = [runs EXCEPT ![k].pc = "map"]
    /\ debounceTimer' = [pending |-> FALSE, due |-> 0, viewport |-> NullRec]
    /\ lastPersisted' = NullRec
    /\ cleaned' = FALSE
    /\ loading' = TRUE
    /\ error' = Null
    /\ UNCHANGED <<nodes, edges, mapInfo, edgeType, rankdir, locked,
                   lastEventId, mapSelection>>
    /\ UNCHANGED <<histVars, resumeVars, backendVars, gestureVars>>
    /\ UNCHANGED <<now, patches, saved, writes, calls, fires>>
    /\ UNCHANGED <<switchVars, mutationVars>>
    /\ UNCHANGED <<mounted, drag, sigPanel, notesPanel, fetches>>

\* await loadMap() returns, with the map or with an error, init() resolves
\* and its then-callback calls createMapSSE({ mapId: map_id, ... })
LoadMapReturned ==
    /\ \E k \in 1..Len(runs) :
        /\ runs[k].pc = "map"
        /\ runs' = [runs EXCEPT ![k].pc = "connected", ![k].mapId = map_id,
                                ![k].open = TRUE]
    /\ \/ \E m \in ServedMaps :
            /\ mapInfo' = m
            /\ edgeType' = EdgeTypeOf(m)
            /\ rankdir' = RankdirOf(m)
            /\ nodes' = transformNodes(backend.nodes)
            /\ edges' = transformEdges(backend.links)
            /\ lastEventId' = Len(eventLog)
            /\ mapSelection' = setMapContext(mapSelection, map_id,
                                             m.edit_access = FALSE)
            /\ UNCHANGED error
       \/ /\ error' = "Failed to load map"
          /\ UNCHANGED <<nodes, edges, mapInfo, edgeType, rankdir,
                         lastEventId, mapSelection>>
    /\ loading' = FALSE
    /\ UNCHANGED <<locked, histVars, resumeVars, backendVars, gestureVars>>
    /\ UNCHANGED <<viewportVars, switchVars, mutationVars>>
    /\ UNCHANGED <<mounted, drag, sigPanel, notesPanel, fetches>>

\* the cleanup's call of viewportPersister.cleanup()
PersisterCleanup ==
    IF PersisterExists
    THEN /\ debounceTimer' = [debounceTimer EXCEPT !.pending = FALSE]
         /\ cleaned' = TRUE
    ELSE UNCHANGED <<debounceTimer, cleaned>>

\* the map_id prop changes: the cleanup of the previous run, then the next
\* run of the effect
ChangeMapId ==
    /\ mounted
    /\ Len(runs) < MaxRuns
    /\ \E m \in MapIds \ {map_id} : map_id' = m
    /\ runs' = Append(EffectCleanup(runs), NewRun)
    /\ PersisterCleanup
    /\ UNCHANGED <<viewVars, histVars, resumeVars, backendVars, gestureVars>>
    /\ UNCHANGED <<now, lastPersisted, patches, saved, writes, calls, fires>>
    /\ UNCHANGED <<initPc, selectedUnder, mutationVars>>
    /\ UNCHANGED <<mounted, drag, sigPanel, notesPanel, fetches>>

\* the view is torn down: the cleanup of the last run
Unmount ==
    /\ mounted
    /\ mounted' = FALSE
    /\ runs' = EffectCleanup(runs)
    /\ PersisterCleanup
    /\ UNCHANGED <<viewVars, histVars, resumeVars, backendVars, gestureVars>>
    /\ UNCHANGED <<now, lastPersisted, patches, saved, writes, calls, fires>>
    /\ UNCHANGED <<switchVars, mutationVars>>
    /\ UNCHANGED <<drag, sigPanel, notesPanel, fetches>>

\* an open connection hands a signature event to its listener; the event
\* is remembered with the map of its connection and the view it met
StreamEvent ==
    /\ delivered < MaxEvents
    /\ \E k \in 1..Len(runs) :
        /\ runs[k].open
        /\ \E type \in SignatureEvents :
            lastEvent' = Event(type, [mapId |-> runs[k].mapId,
                                      shown |-> map_id,
                                      mounted |-> mounted])
    /\ delivered' = delivered + 1
    /\ mapSelection' = triggerSignatureRefresh(mapSelection)
    /\ UNCHANGED <<nodes, edges, mapInfo, edgeType, rankdir, locked, loading,
                   error, lastEventId, dup, pre>>
    /\ UNCHANGED <<resumeVars, backendVars, gestureVars>>
    /\ UNCHANGED <<viewportVars, switchVars, mutationVars, moreVars>>

InitLifecycle ==
    /\ nodes = <<>>
    /\ edges = <<>>
    /\ mapInfo = NullRec
    /\ edgeType = "default"
    /\ rankdir = "LR"
    /\ locked = FALSE
    /\ loading = TRUE
    /\ error = Null
    /\ lastEventId = NoEventId
    /\ mapSelection = initialState
    /\ HistInit
    /\ ResumeIdle
    /\ backend = [nodes |-> ResumeSnapshot.nodes,
                  links |-> ResumeSnapshot.links]
    /\ sse = [state |-> "none", cursor |-> 0]
    /\ load = NullRec
    /\ GestureIdle
    /\ ViewportIdle
    /\ SwitchIdle
    /\ MutationIdle
    /\ runs = <<NewRun>>
    /\ mounted = TRUE
    /\ drag = [pc |-> "idle", draggedNodes |-> <<>>, i |-> 0]
    /\ sigPanel = [lastLoaded |-> 0, lastRefreshTrigger |-> 0]
    /\ notesPanel = [lastLoaded |-> 0, lastRefreshTrigger |-> 0]
    /\ fetches = [signatures |-> NullRec, notes |-> NullRec]

NextLifecycle ==
    \/ LoadViewportReturned
    \/ SetSelectedMapReturned
    \/ LoadMapReturned
    \/ ChangeMapId
    \/ Unmount
    \/ StreamEvent

SpecLifecycle == InitLifecycle /\ [][NextLifecycle]_vars

\* the runs whose connection is open
OpenRuns == {k \in 1..Len(runs) : runs[k].open}

\* C21: at most one connection is open for the view; once the view is torn
\* down none is open; an open connection is one for the map the view shows;
\* and every event applied came from a connection of the map shown, to a
\* view not torn down.
C21_OneConnection ==
    /\ Cardinality(OpenRuns) <= 1
    /\ ~mounted => OpenRuns = {}
    /\ \A k \in OpenRuns : runs[k].mapId = map_id
    /\ lastEvent.type \in SignatureEvents =>
          /\ lastEvent.data.mapId = lastEvent.data.shown
          /\ lastEvent.data.mounted

----------------------------------------------------------------------------
(* SpecLock: the view's lock button, the loads it starts and the node and  *)
(* map events of the stream, for the draggable flag of the nodes.          *)

\* the lock button of the controls: locked = !locked; loadMap()
ToggleLock ==
    /\ ~isReadOnly
    /\ load = NullRec
    /\ invoked < MaxActions
    /\ invoked' = invoked + 1
    /\ locked' = ~locked
    /\ loading' = TRUE
    /\ error' = Null
    /\ load' = [phase |-> "sent"]
    /\ UNCHANGED <<nodes, edges, mapInfo, edgeType, rankdir, lastEventId,
                   mapSelection>>
    /\ UNCHANGED <<histVars, resumeVars, backend, sse, gestureVars>>
    /\ UNCHANGED <<viewportVars, switchVars, action, toasts>>
    /\ UNCHANGED moreVars

InitLock == InitMutate

NextLock ==
    \/ ToggleLock
    \/ ServeLoad
    \/ LoadDone
    \/ LoadFailed
    \/ node_listener
    \/ map_updated_listener

SpecLock == InitLock /\ [][NextLock]_vars

\* C33: in every state, whatever loads, node_created and node_updated
\* events came before, a node of the store whose locked flag is true has
\* draggable = false.
C33_LockedNotDraggable ==
    \A k \in 1..Len(nodes) : nodes[k].data.locked => ~nodes[k].draggable

\* the view was locked and reloaded, then a node_updated locked a node that
\* could be dragged before
C33_Witness ==
    /\ invoked = 1
    /\ load = NullRec
    /\ lastEvent.type = "node_updated"
    /\ delivered = 1
    /\ \E k \in 1..Len(nodes) :
          /\ nodes[k].data.locked
          /\ nodes[k].data = lastEvent.data.value.data
          /\ ~nodes[k].draggable
          /\ ~ResumeSnapshot.nodes[k].locked

\* C37: while the view is locked or read-only, every node a node_created or
\* node_updated event adds to the store or changes in it has draggable =
\* false.
C37_LockedViewNotDraggable ==
    [][(/\ Delivery
        /\ lastEvent'.type \in {"node_created", "node_updated"}
        /\ isLocked) =>
            \A k \in 1..Len(nodes') :
                (k > Len(nodes) \/ nodes'[k] # nodes[k]) =>
                    ~nodes'[k].draggable]_vars

----------------------------------------------------------------------------
(* SpecSelect: the user's selection against the node events of the stream. *)

InitSelect == InitMutate

NextSelect ==
    \/ handleSelectionChange
    \/ node_listener

SpecSelect == InitSelect /\ [][NextSelect]_vars

\* C38: applying a node_updated or node_deleted event leaves the selection
\* store as it was (selected node, map id, read-only flag and both
\* counters), also when the event names the selected node.
C38_NodeEventsKeepSelection ==
    [][(Delivery /\ lastEvent'.type \in {"node_updated", "node_deleted"}) =>
            mapSelection' = mapSelection]_vars

\* the selected node was updated by an event: the store holds the new data,
\* the selection the data it was selected with
C38_Witness ==
    /\ lastEvent.type = "node_updated"
    /\ ~Malformed(lastEvent.data)
    /\ mapSelection.selectedNode # NullRec
    /\ mapSelection.selectedNode.id = lastEvent.data.value.data.id
    /\ mapSelection.selectedNode # lastEvent.data.value.data
    /\ \E k \in 1..Len(nodes) : nodes[k].data = lastEvent.data.value.data

----------------------------------------------------------------------------
(* SpecStale: the map view around a sync_error: the node events before it, *)
(* the reload it starts, and a drag, which the rendering layer writes to   *)
(* the bound collection.                                                   *)

InitStale == InitMutate

NextStale ==
    \/ node_listener
    \/ sync_error
    \/ ServeLoad
    \/ LoadDone
    \/ LoadFailed
    \/ FlowDrag
    \/ handleSelectionDragStop
    \/ updateNodePositionReturned

SpecStale == InitStale /\ [][NextStale]_vars

\* a sync_error has been handled
SyncErrorHandled ==
    \E k \in 1..Len(toasts) : toasts[k].title = "Sync Error"

----------------------------------------------------------------------------
(* SpecTransport: one connection handle and its transport.  The browser's  *)
(* EventSource reports an error when the connection is lost, connects      *)
(* again by itself and raises its open event every time a connection is    *)
(* established; a handle that was closed stays closed.                     *)

\* the error notifications raised so far
Drops == Len(SelectSeq(toasts, LAMBDA t : t.title = "Connection Error"))

\* eventSource.onopen: callbacks.onConnected()
onopen ==
    /\ sse.state = "connecting"
    /\ sse' = [sse EXCEPT !.state = "open"]
    /\ toasts' = Append(toasts, [title |-> "Connected",
                                 description |-> "Real-time events connected",
                                 type |-> "success"])
    /\ UNCHANGED <<viewVars, histVars, resumeVars, backend, load, gestureVars>>
    /\ UNCHANGED <<viewportVars, switchVars, action, invoked, moreVars>>

\* eventSource.onerror: callbacks.onError(); the transport tries again
onerror ==
    /\ sse.state \in {"connecting", "open"}
    /\ Drops < MaxDrops
    /\ sse' = [sse EXCEPT !.state = "connecting"]
    /\ toasts' = Append(toasts,
          [title |-> "Connection Error",
           description |->
               "Lost connection to real-time events. Changes may not sync.",
           type |-> "error"])
    /\ UNCHANGED <<viewVars, histVars, resumeVars, backend, load, gestureVars>>
    /\ UNCHANGED <<viewportVars, switchVars, action, invoked, moreVars>>

\* createMapSSE has just returned: the handle exists, no connection yet
InitTransport ==
    /\ Loaded(ResumeSnapshot, FALSE)
    /\ HistInit
    /\ ResumeIdle
    /\ backend = [nodes |-> ResumeSnapshot.nodes,
                  links |-> ResumeSnapshot.links]
    /\ sse = [state |-> "connecting", cursor |-> 0]
    /\ load = NullRec
    /\ GestureIdle
    /\ ExtraIdle

NextTransport ==
    \/ onopen
    \/ onerror
    \/ node_listener
    \/ sync_error
    \/ ServeLoad
    \/ LoadDone
    \/ LoadFailed

SpecTransport == InitTransport /\ [][NextTransport]_vars

\* C32: for one connection handle the 'connected' notification is raised
\* at most once, however often the transport loses and re-establishes the
\* connection.
C32_ConnectedOnce ==
    Len(SelectSeq(toasts, LAMBDA t : t.title = "Connected")) <= 1

----------------------------------------------------------------------------
(* SpecFetch: the signature panel with its requests in flight              *)
(* (SignatureCard.svelte).  sigPanel holds, besides the keys of the last   *)
(* load, the lists the panel shows and its loading and error fields;       *)
(* fetches holds, besides the last fetch issued, the requests not yet      *)
(* answered and the nodes a request for which has failed.  The two         *)
(* requests of one load are answered separately and in any order.          *)

\* GET /maps/{map_id}/nodes/{node_id}/signatures: data.signatures
ServedSignatures(nodeId) == <<[id |-> 10 + nodeId, node_id |-> nodeId]>>

\* GET /maps/{map_id}/nodes/{node_id}/connections: data.connections
ServedConnections(nodeId) == <<[id |-> 20 + nodeId, node_id |-> nodeId]>>

\* the effect of SignatureCard with both requests it sends
SignatureCardEffect ==
    /\ LET state == mapSelection
           nodeId == NodeIdOf(state)
           mapId == state.mapId
           refreshTrigger == state.signatureRefreshTrigger
       IN IF nodeId # 0 /\ mapId # Null
          THEN /\ ShouldLoad(nodeId, refreshTrigger, sigPanel)
               /\ Len(fetches.pending) + 2 <= MaxPending
               /\ sigPanel' = [sigPanel EXCEPT
                                  !.lastLoaded = nodeId,
                                  !.lastRefreshTrigger = refreshTrigger,
                                  !.loading = TRUE,
                                  !.error = Null]
               /\ fetches' = [fetches EXCEPT
                                 !.signatures = [mapId |-> mapId, id |-> nodeId],
                                 !.pending = @ \o
                                     <<[route |-> "signatures", mapId |-> mapId,
                                        nodeId |-> nodeId],
                                       [route |-> "connections", mapId |-> mapId,
                                        nodeId |-> nodeId]>>]
          ELSE /\ nodeId = 0
               /\ sigPanel' = [sigPanel EXCEPT !.lastLoaded = 0,
                                               !.signatures = <<>>,
                                               !.connections = <<>>]
               /\ UNCHANGED fetches
    /\ UNCHANGED <<viewVars, histVars, resumeVars, backendVars, gestureVars>>
    /\ UNCHANGED <<viewportVars, switchVars, mutationVars>>
    /\ UNCHANGED <<runs, mounted, drag, notesPanel>>

\* loadSignatures after its await
loadSignaturesReturned ==
    /\ \E k \in 1..Len(fetches.pending), ok \in BOOLEAN :
        LET request == fetches.pending[k]
        IN /\ request.route = "signatures"
           /\ IF ~ok
              THEN /\ sigPanel' = [sigPanel EXCEPT
                                      !.error = "Failed to load signatures",
                                      !.loading = FALSE]
                   /\ fetches' = [fetches EXCEPT
                                     !.pending = SubSeq(@, 1, k - 1)
                                                 \o SubSeq(@, k + 1, Len(@)),
                                     !.rejected = @ \cup {request.nodeId}]
              ELSE /\ sigPanel' = [sigPanel EXCEPT
                                      !.signatures =
                                          ServedSignatures(request.nodeId),
                                      !.loading = FALSE]
                   /\ fetches' = [fetches EXCEPT
                                     !.pending = SubSeq(@, 1, k - 1)
                                                 \o SubSeq(@, k + 1, Len(@))]
    /\ UNCHANGED <<viewVars, histVars, resumeVars, backendVars, gestureVars>>
    /\ UNCHANGED <<viewportVars, switchVars, mutationVars>>
    /\ UNCHANGED <<runs, mounted, drag, notesPanel>>

\* loadConnections after its await
loadConnectionsReturned ==
    /\ \E k \in 1..Len(fetches.pending), ok \in BOOLEAN :
        LET request == fetches.pending[k]
        IN /\ request.route = "connections"
           /\ IF ~ok
              THEN /\ UNCHANGED sigPanel
                   /\ fetches' = [fetches EXCEPT
                                     !.pending = SubSeq(@, 1, k - 1)
                                                 \o SubSeq(@, k + 1, Len(@)),
                                     !.rejected = @ \cup {request.nodeId}]
              ELSE /\ sigPanel' = [sigPanel EXCEPT
                                      !.connections =
                                          ServedConnections(request.nodeId)]
                   /\ fetches' = [fetches EXCEPT
                                     !.pending = SubSeq(@, 1, k - 1)
                                                 \o SubSeq(@, k + 1, Len(@))]
    /\ UNCHANGED <<viewVars, histVars, resumeVars, backendVars, gestureVars>>
    /\ UNCHANGED <<viewportVars, switchVars, mutationVars>>
    /\ UNCHANGED <<runs, mounted, drag, notesPanel>>

InitFetch ==
    /\ Loaded(ResumeSnapshot, FALSE)
    /\ HistInit
    /\ ResumeIdle
    /\ backend = [nodes |-> ResumeSnapshot.nodes,
                  links |-> ResumeSnapshot.links]
    /\ sse = [state |-> "open", cursor |-> 0]
    /\ load = NullRec
    /\ GestureIdle
    /\ ViewportIdle
    /\ SwitchIdle
    /\ MutationIdle
    /\ runs = <<>>
    /\ mounted = TRUE
    /\ drag = [pc |-> "idle", draggedNodes |-> <<>>, i |-> 0]
    /\ sigPanel = [lastLoaded |-> 0, lastRefreshTrigger |-> 0,
                   signatures |-> <<>>, connections |-> <<>>,
                   loading |-> FALSE, error |-> Null]
    /\ notesPanel = [lastLoaded |-> 0, lastRefreshTrigger |-> 0]
    /\ fetches = [signatures |-> NullRec, notes |-> NullRec,
                  pending |-> <<>>, rejected |-> {}]

NextFetch ==
    \/ handleSelectionChange
    \/ SignatureCardEffect
    \/ loadSignaturesReturned
    \/ loadConnectionsReturned

SpecFetch == InitFetch /\ [][NextFetch]_vars

\* C35: once every request in flight has been answered, the effect has run
\* for the selected node and no request for that node has failed, the
\* panel's signature and connection lists are the ones served for the
\* selected node, whatever the order of the answers.
C35_PanelShowsSelected ==
    (/\ Selected
     /\ fetches.pending = <<>>
     /\ sigPanel.lastLoaded = mapSelection.selectedNode.id
     /\ sigPanel.lastRefreshTrigger = mapSelection.signatureRefreshTrigger
     /\ mapSelection.selectedNode.id \notin fetches.rejected) =>
        /\ sigPanel.signatures = ServedSignatures(mapSelection.selectedNode.id)
        /\ sigPanel.connections =
               ServedConnections(mapSelection.selectedNode.id)

====
